---- MODULE Spec2Model ----
(***************************************************************************)
(* Model of the gradient tool's GPU renderer (packages/core/src/gpu.ts,    *)
(* found as src/unnamed/part_000 lines 228-472) and of the fragment shader *)
(* (packages/core/src/shader.wgsl).                                        *)
(*                                                                         *)
(* Numbers: floating-point values are modelled in fixed point.             *)
(*   positions and t  : integer p stands for p / PosScale                  *)
(*   colour channels  : integer v stands for v / FP                        *)
(*   matrix entries   : integer m stands for m / MatScale                  *)
(*   angle_rad        : micro-radians                                      *)
(***************************************************************************)
EXTENDS Integers, Sequences, FiniteSets, TLC

\* ------------------------------------------------------------------------
\* Bounds of the model
\* ------------------------------------------------------------------------
MaxCalls == 2
NumCanvases == 2
MaxShort == 3
MaxLong == 9
MaxStoreAdds == 1
MaxThrottleCalls == 5
\* the wait window of throttle in clock ticks
WaitTicks == 3

\* ------------------------------------------------------------------------
\* Program constants and fixed-point scales
\* ------------------------------------------------------------------------
MAX_STOPS == 8
PosScale == 100000
FP == 1000
MatScale == 10000
HeaderBytes == 16
stopStructSizeBytes == 16

NULL == 0

Canvases == 1..NumCanvases
CallIds == 1..MaxCalls

\* Error values thrown by renderGradientGL
E_NONE == "none"
E_NOT_SUPPORTED == "WebGPU not supported"
E_NO_ADAPTER == "No GPU adapter found"
E_DEVICE_NULL == "WebGPU device acquisition failed"
E_ADAPTER_REJECTED == "requestAdapter rejected"
E_DEVICE_REJECTED == "requestDevice rejected"
E_NO_CONTEXT == "Failed to get WebGPU context"
E_DEVICE_UNAVAILABLE == "GPU device unavailable"

DeviceErrors ==
  {E_NOT_SUPPORTED, E_NO_ADAPTER, E_DEVICE_NULL, E_ADAPTER_REJECTED,
   E_DEVICE_REJECTED, E_DEVICE_UNAVAILABLE}

Min(a, b) == IF a < b THEN a ELSE b
Max(a, b) == IF a > b THEN a ELSE b

\* utils.ts clamp
clamp(value, lo, hi) == Min(Max(value, lo), hi)

\* ------------------------------------------------------------------------
\* gpu.ts: private colour helpers (OKLab -> linear RGB), in fixed point
\* ------------------------------------------------------------------------
M_OKLAB_TO_LMS == <<10000, 3963, 2158, 10000, -1056, -639, 10000, -895, -12915>>
M_LMS_TO_XYZ == <<9870, -1471, 1600, 4323, 5184, 493, -85, 400, 9685>>
M_XYZ_TO_RGB == <<32405, -15371, -4985, -9693, 18760, 416, 556, -2040, 10572>>

multiplyMatrix3x3(M, v) ==
  << (M[1] * v[1] + M[2] * v[2] + M[3] * v[3]) \div MatScale,
     (M[4] * v[1] + M[5] * v[2] + M[6] * v[3]) \div MatScale,
     (M[7] * v[1] + M[8] * v[2] + M[9] * v[3]) \div MatScale >>

Cube(x) == (((x * x) \div FP) * x) \div FP

unmapLms(v) == << Cube(v[1]), Cube(v[2]), Cube(v[3]) >>

oklabToLinearRgb(oklab) ==
  LET mapped == multiplyMatrix3x3(M_OKLAB_TO_LMS, <<oklab.l, oklab.a, oklab.b>>)
      cone   == unmapLms(mapped)
      xyz    == multiplyMatrix3x3(M_LMS_TO_XYZ, cone)
      rgb    == multiplyMatrix3x3(M_XYZ_TO_RGB, xyz)
  IN  << clamp(rgb[1], 0, FP), clamp(rgb[2], 0, FP), clamp(rgb[3], 0, FP) >>

\* ------------------------------------------------------------------------
\* gpu.ts step 3: select the stops and pack the uniform buffer
\* ------------------------------------------------------------------------

\* Array.prototype.sort with comparator (a, b) => a.position - b.position.
\* The sort is stable: an element is inserted after every element that does
\* not compare greater than it.
\* mutant: an unstable sort, a stop goes before the stops of equal position
RECURSIVE InsertByPositionUnstable(_, _)
InsertByPositionUnstable(sorted, stop) ==
  IF sorted = <<>> THEN <<stop>>
  ELSE IF Head(sorted).position - stop.position >= 0
       THEN <<stop>> \o sorted
       ELSE <<Head(sorted)>> \o InsertByPositionUnstable(Tail(sorted), stop)

RECURSIVE InsertByPosition(_, _)
InsertByPosition(sorted, stop) ==
  IF sorted = <<>> THEN <<stop>>
  ELSE IF Head(sorted).position - stop.position > 0
       THEN <<stop>> \o sorted
       ELSE <<Head(sorted)>> \o InsertByPosition(Tail(sorted), stop)

RECURSIVE SortByPosition(_)
SortByPosition(stops) ==
  IF stops = <<>> THEN <<>>
  ELSE InsertByPosition(SortByPosition(SubSeq(stops, 1, Len(stops) - 1)),
                        stops[Len(stops)])

\* [...stops].sort(cmp): the spread copies the array and sort() sorts the copy
\* in place. `array` is the caller's array afterwards, `result` the value of
\* the expression.
\* mutant: stops.sort(cmp), which sorts the caller's array itself
SortInPlace(stops) ==
  [array |-> SortByPosition(stops), result |-> SortByPosition(stops)]

SpreadSort(stops) ==
  [array |-> stops, result |-> SortByPosition(stops)]

\* Array.prototype.slice(0, n)
Slice0(s, n) == SubSeq(s, 1, Min(Len(s), n))

\* const sortedStops = [...gradient.stops].sort(...).slice(0, MAX_STOPS)
SelectStops(gradient) == Slice0(SpreadSort(gradient.stops).result, MAX_STOPS)

\* gradient.angle * (Math.PI / 180), in micro-radians
AngleRad(angle) == (angle * 3141593) \div 180

uniformBufferSize == HeaderBytes + MAX_STOPS * stopStructSizeBytes

\* new ArrayBuffer(uniformBufferSize): zero-filled, one entry per 32-bit word
NewArrayBuffer(size) == [w \in 1..(size \div 4) |-> 0]

\* DataView.setFloat32 / setUint32 at a byte offset (all offsets used are
\* multiples of 4, so a write replaces exactly one word)
setFloat32(buf, offset, value) == [buf EXCEPT ![(offset \div 4) + 1] = value]
setUint32(buf, offset, value) == [buf EXCEPT ![(offset \div 4) + 1] = value]

\* the position written for a retained stop (gpu.ts line 421)
PackedPosition(stop) == stop.position

\* one iteration of the loop over i in 0..MAX_STOPS-1 (gpu.ts lines 415-429)
WriteStop(buf, offset, sortedStops, i) ==
  LET present == i + 1 <= Len(sortedStops)
      pos == IF present THEN PackedPosition(sortedStops[i + 1]) ELSE 0
      rgb == IF present THEN oklabToLinearRgb(sortedStops[i + 1].color)
             ELSE <<0, 0, 0>>
      b1 == setFloat32(buf, offset, pos)
      b2 == setFloat32(b1, offset + 4, rgb[1])
      b3 == setFloat32(b2, offset + 8, rgb[2])
  IN  setFloat32(b3, offset + 12, rgb[3])

RECURSIVE WriteStops(_, _, _, _)
WriteStops(buf, offset, sortedStops, i) ==
  IF i >= MAX_STOPS THEN buf
  ELSE WriteStops(WriteStop(buf, offset, sortedStops, i),
                  offset + stopStructSizeBytes, sortedStops, i + 1)

\* mutant: the header without its two padding words written, the stop count
\* placed where the shader expects padding
WriteHeaderMisplaced(buf, angleRad, numStops) ==
  LET b1 == setFloat32(buf, 0, angleRad)
  IN  setUint32(b1, 8, numStops)

\* header: angle_rad (f32), num_stops (u32), two padding words
WriteHeader(buf, angleRad, numStops) ==
  LET b1 == setFloat32(buf, 0, angleRad)
      b2 == setUint32(b1, 4, numStops)
      b3 == setFloat32(b2, 8, 0)
  IN  setFloat32(b3, 12, 0)

PackUniforms(gradient) ==
  LET sortedStops == SelectStops(gradient)
      numStops == Len(sortedStops)
      header == WriteHeader(NewArrayBuffer(uniformBufferSize),
                            AngleRad(gradient.angle), numStops)
  IN  WriteStops(header, HeaderBytes, sortedStops, 0)

\* ------------------------------------------------------------------------
\* shader.wgsl: the Uniforms struct as the shader reads it, and fs_main
\* ------------------------------------------------------------------------

\* struct Stop { pos, r, g, b } read at a byte offset
ReadStop(buf, offset) ==
  [pos |-> buf[(offset \div 4) + 1], r |-> buf[(offset \div 4) + 2],
   g |-> buf[(offset \div 4) + 3], b |-> buf[(offset \div 4) + 4]]

\* struct Uniforms { angle_rad, num_stops, _padding1, _padding2, stops }
ReadUniforms(buf) ==
  [angle_rad |-> buf[1], num_stops |-> buf[2],
   padding1 |-> buf[3], padding2 |-> buf[4],
   stops |-> [i \in 0..(MAX_STOPS - 1) |-> ReadStop(buf, 16 + 16 * i)]]

\* mutant: the loop without its break
RECURSIVE ScanSegmentsNoBreak(_, _, _, _)
ScanSegmentsNoBreak(u, t, i, sel) ==
  IF ~(i < u.num_stops - 1) THEN sel
  ELSE ScanSegmentsNoBreak(u, t, i + 1,
         IF t >= u.stops[i].pos /\ t < u.stops[i + 1].pos
         THEN <<i, i + 1>>
         ELSE IF i = u.num_stops - 2 THEN <<i, i + 1>> ELSE sel)

\* the loop of fs_main lines 65-76; sel is <<index of stop_a, index of stop_b>>
RECURSIVE ScanSegments(_, _, _, _)
ScanSegments(u, t, i, sel) ==
  IF ~(i < u.num_stops - 1) THEN sel
  ELSE IF t >= u.stops[i].pos /\ t < u.stops[i + 1].pos
       THEN <<i, i + 1>>
       ELSE ScanSegments(u, t, i + 1,
                         IF i = u.num_stops - 2 THEN <<i, i + 1>> ELSE sel)

\* the segment chosen after the post-loop test of lines 79-82
SelectSegment(u, t) ==
  LET scanned == ScanSegments(u, t, 0, <<0, 1>>)
  IN  IF t >= u.stops[u.num_stops - 1].pos
      THEN <<u.num_stops - 2, u.num_stops - 1>>
      ELSE scanned

\* 0.00001 in position units
SegmentEpsilon == PosScale \div 100000

\* local_t as a fraction num/den with 0 <= num <= den (den = 1 when the
\* segment is too narrow and local_t is 0)
LocalT(u, t, sel) ==
  LET stop_a == u.stops[sel[1]]
      stop_b == u.stops[sel[2]]
      segment_length == stop_b.pos - stop_a.pos
  IN  IF segment_length > SegmentEpsilon
      THEN [num |-> clamp(t - stop_a.pos, 0, segment_length),
            den |-> segment_length, divided |-> TRUE]
      ELSE [num |-> 0, den |-> 1, divided |-> FALSE]

\* mix(a, b, local_t) = a * (1 - local_t) + b * local_t
mix(a, b, lt) == (a * (lt.den - lt.num) + b * lt.num) \div lt.den

\* fs_main without the num_stops == 1 case of line 55: fewer than two stops
\* always yields black
fs_mainNoSingle(buf, t) ==
  LET u == ReadUniforms(buf)
  IN  IF u.num_stops < 2
      THEN [branch |-> "empty", sel |-> <<0, 0>>,
            local_t |-> [num |-> 0, den |-> 1, divided |-> FALSE],
            color |-> <<0, 0, 0>>]
      ELSE LET sel == SelectSegment(u, t)
               lt == LocalT(u, t, sel)
               sa == u.stops[sel[1]]
               sb == u.stops[sel[2]]
           IN  [branch |-> "segment", sel |-> sel, local_t |-> lt,
                color |-> <<mix(sa.r, sb.r, lt), mix(sa.g, sb.g, lt),
                            mix(sa.b, sb.b, lt)>>]

\* shader.wgsl lines 43-86
fs_main(buf, t) ==
  LET u == ReadUniforms(buf)
  IN  IF u.num_stops < 2
      THEN IF u.num_stops = 1
           THEN [branch |-> "single", sel |-> <<0, 0>>,
                 local_t |-> [num |-> 0, den |-> 1, divided |-> FALSE],
                 color |-> <<u.stops[0].r, u.stops[0].g, u.stops[0].b>>]
           ELSE [branch |-> "empty", sel |-> <<0, 0>>,
                 local_t |-> [num |-> 0, den |-> 1, divided |-> FALSE],
                 color |-> <<0, 0, 0>>]
      ELSE LET sel == SelectSegment(u, t)
               lt == LocalT(u, t, sel)
               sa == u.stops[sel[1]]
               sb == u.stops[sel[2]]
           IN  [branch |-> "segment", sel |-> sel, local_t |-> lt,
                color |-> <<mix(sa.r, sb.r, lt), mix(sa.g, sb.g, lt),
                            mix(sa.b, sb.b, lt)>>]

\* ------------------------------------------------------------------------
\* Gradient values used as inputs
\* ------------------------------------------------------------------------
Palette ==
  << [l |-> 628, a |-> 225, b |-> 126],
     [l |-> 0, a |-> 0, b |-> 0],
     [l |-> 1000, a |-> 0, b |-> 0] >>

\* the i-th stop of an input gradient: ids are unique, neighbouring stops
\* have different colours
StopAt(i, p) ==
  [id |-> i, position |-> p, color |-> Palette[((i - 1) % Len(Palette)) + 1]]

MkGradient(positions, angle) ==
  [id |-> "g", type |-> "linear", angle |-> angle,
   stops |-> [i \in 1..Len(positions) |-> StopAt(i, positions[i])]]

\* the gradients handed to renderGradientGL in the lifecycle specification
RenderGradients ==
  << MkGradient(<<100000, 0>>, 90), MkGradient(<<>>, 0) >>

\* ------------------------------------------------------------------------
\* State
\* ------------------------------------------------------------------------
VARIABLES
  gpuDevice,        \* module-level cache: device id, or NULL
  gpuContextMap,    \* module-level WeakMap: a function on the cached canvases
  gpuPipeline,      \* module-level cache: pipeline record, or NoPipeline
  hasGpu,           \* navigator.gpu is present
  canvasSupportsGpu,\* per canvas: getContext('webgpu') can yield a context
  canvasMode,       \* per canvas: context type bound to it by getContext
  calls,            \* per renderGradientGL call: where it is and what it did
  nIssued,          \* number of calls issued so far
  anySuccess,       \* some call has resolved
  devicesMade,      \* devices handed out by requestDevice
  pipelinesMade,    \* createRenderPipeline executions
  shaderModulesMade,\* createShaderModule executions
  configures,       \* per canvas: context.configure executions
  acquisitions,     \* per canvas: contexts obtained from getContext('webgpu')
  submits,          \* log of queue.submit, one record per draw
  gradient,         \* pure pipeline: the input gradient
  stage,            \* pure pipeline: "off", "input", "packed", "shaded"
  sortedStops,      \* pure pipeline: the local sortedStops
  uniformData,      \* pure pipeline: the packed buffer
  tIn,              \* pure pipeline: the fragment's t
  fragOut,          \* pure pipeline: what fs_main computed
  gradientIn,       \* pure functions: the value of the argument at the call
  ret,              \* pure functions: which function ran and what it returned
  colorCall,        \* color.ts: the function that ran, its arguments and result
  persist,          \* web persistence: the IndexedDB table and the calls made
  canvasUi,         \* web GradientCanvas: state, refs, effects and their renders
  share,            \* share endpoint: the KV store and the POST requests in flight
  loader,           \* web GradientLoader: its state and what it did
  throttled,        \* throttle: the closure's variables, the clock and the timer
  store             \* web gradient store: the gradient and the saves requested

gpuVars ==
  <<gpuDevice, gpuContextMap, gpuPipeline, hasGpu, canvasSupportsGpu,
    canvasMode, calls, nIssued, anySuccess, devicesMade, pipelinesMade,
    shaderModulesMade, configures, acquisitions, submits>>

pureVars ==
  <<gradient, stage, sortedStops, uniformData, tIn, fragOut, gradientIn, ret,
    colorCall>>

webVars == <<persist, canvasUi, share, loader, throttled, store>>

vars == <<gpuVars, pureVars, webVars>>

NoPipeline == [id |-> 0, device |-> 0]
NoContext == [canvas |-> 0, device |-> 0]

IdleCall ==
  [pc |-> "idle", canvas |-> 0, gradient |-> 0, error |-> E_NONE,
   fallback |-> "none", adapterReqs |-> 0, deviceReqs |-> 0,
   fallbackCanvas |-> 0, cause |-> "none",
   afterSuccess |-> FALSE, overlaps |-> {}, contextError |-> FALSE]

Pending(c) == calls[c].pc \in {"awaitAdapter", "awaitDevice"}

NoOut == [op |-> "none", value |-> << >>, threshold |-> 0]

NoColorCall == [op |-> "none"]

\* GradientCanvas before it is mounted: useState(false) for gpuError, the
\* refs null, no effect has run
CanvasOff ==
  [mounted |-> FALSE, gradient |-> 0, gpuError |-> FALSE, offscreen |-> FALSE,
   effects |-> << >>, background |-> "none", started |-> 0, ignored |-> 0]

\* dexie-gradient.ts: db.gradients is empty, nothing was saved or loaded
PersistOff ==
  [table |-> << >>, calls |-> 0, saved |-> "none", written |-> "none",
   saveResult |-> "none", loaded |-> "none", loadFailed |-> FALSE,
   allWritesOk |-> TRUE]

NoFrag ==
  [branch |-> "none", sel |-> <<0, 0>>,
   local_t |-> [num |-> 0, den |-> 1, divided |-> FALSE],
   color |-> <<0, 0, 0>>]

GpuInit ==
  /\ gpuDevice = NULL
  /\ gpuContextMap = << >>
  /\ gpuPipeline = NoPipeline
  /\ hasGpu \in BOOLEAN
  /\ canvasSupportsGpu \in [Canvases -> BOOLEAN]
  /\ canvasMode = [cv \in Canvases |-> "none"]
  /\ calls = [c \in CallIds |-> IdleCall]
  /\ nIssued = 0
  /\ anySuccess = FALSE
  /\ devicesMade = 0
  /\ pipelinesMade = 0
  /\ shaderModulesMade = 0
  /\ configures = [cv \in Canvases |-> 0]
  /\ acquisitions = [cv \in Canvases |-> 0]
  /\ submits = << >>

PureOff ==
  /\ gradient = MkGradient(<<>>, 0)
  /\ stage = "off"
  /\ sortedStops = << >>
  /\ uniformData = << >>
  /\ tIn = 0
  /\ fragOut = NoFrag
  /\ gradientIn = gradient
  /\ ret = NoOut

\* share.ts: the KV store is empty and no request has arrived
ShareOff == [kv |-> << >>, posts |-> << >>]

\* GradientLoader before it is mounted: useState('loading'), useState(null)
LoaderOff ==
  [mounted |-> FALSE, slug |-> "", loadingState |-> "loading", error |-> "none",
   fetching |-> FALSE, status |-> 0, setGradient |-> << >>, navigated |-> FALSE]

\* throttle(func, wait) just after it returned the throttled function
\* (timeoutId 0 and lastArgs 0 stand for null); no invocation lies within
\* the last wait window
ThrottleOff ==
  [timeoutId |-> 0, lastArgs |-> 0, trailingCallScheduled |-> FALSE,
   timerAge |-> 0, sinceInvoke |-> WaitTicks, callsMade |-> 0,
   invoked |-> << >>]

\* useGradientStore.ts lines 10-18; nanoid() gives the stops the ids 1 and 2,
\* the colours are hexToOKLab('#000000') and hexToOKLab('#ffffff') in units
\* of 1/FP
initialGradient ==
  [id |-> "g", type |-> "linear", angle |-> 90,
   stops |-> << [id |-> 1, position |-> 0, color |-> Palette[2]],
                [id |-> 2, position |-> PosScale, color |-> Palette[3]] >>]

\* useGradientStore after create(): the gradient, the ids nanoid() has
\* given out, the last store action and the last argument of throttledSave
StoreOff ==
  [gradient |-> initialGradient, idsMade |-> 2,
   op |-> [name |-> "none", id |-> 0], saveRequested |-> << >>]

\* the web package's state before anything in it has run
WebOff ==
  /\ persist = PersistOff
  /\ canvasUi = CanvasOff
  /\ share = ShareOff
  /\ loader = LoaderOff
  /\ throttled = ThrottleOff
  /\ store = StoreOff

Init == GpuInit /\ PureOff /\ colorCall = NoColorCall /\ WebOff

\* ------------------------------------------------------------------------
\* renderGradientGL: the synchronous pieces
\* ------------------------------------------------------------------------

\* mutant: the cached device is never recognised
DeviceCachedNever(dev) == FALSE

\* `if (!gpuDevice)` at line 319: the cached device is used when present
DeviceCached(dev) == dev # NULL

\* mutant: the cached pipeline is never recognised
PipelineCachedNever(pipe) == FALSE

\* `if (!gpuPipeline)` at line 368
PipelineCached(pipe) == pipe # NoPipeline

\* gpuContextMap.get(canvas)
ContextGet(map, cv) == IF cv \in DOMAIN map THEN map[cv] ELSE NoContext

\* mutant: the context is not stored
ContextSetDropped(map, cv, ctx) == map

\* gpuContextMap.set(canvas, context)
ContextSet(map, cv, ctx) ==
  [k \in (DOMAIN map) \cup {cv} |-> IF k = cv THEN ctx ELSE map[k]]

\* canvas.getContext('webgpu'): null when the canvas cannot give one or is
\* already bound to a 2d context
GetContextWebgpu(supports, mode) == supports /\ mode \in {"none", "webgpu"}

\* canvas.getContext('2d') in cpuFallback: null when the canvas is already
\* bound to a webgpu context
GetContext2d(mode) == mode \in {"none", "2d"}

\* cpuFallback(canvas, gradient): paints the placeholder when it gets a 2d
\* context, logs otherwise; returns normally either way
cpuFallback(mode, cv) ==
  IF GetContext2d(mode[cv])
  THEN [fallback |-> "painted", canvas |-> cv,
        mode |-> [mode EXCEPT ![cv] = "2d"]]
  ELSE [fallback |-> "no2d", canvas |-> cv, mode |-> mode]

\* mutant: the catch block returns after the fallback instead of throwing
AfterFallbackReturns(e) == [pc |-> "resolved", error |-> E_NONE]

\* what the catch block of lines 335-342 (and lines 321-323) ends with
AfterFallback(e) == [pc |-> "rejected", error |-> e]

\* mutant: the result of getContext is stored in the map before it is tested
AcquireContextStoresFirst(map, mode, supports, cv, dev) ==
  LET cached == ContextGet(map, cv)
  IN  IF cached # NoContext
      THEN [ok |-> TRUE, ctx |-> cached, map |-> map, mode |-> mode,
            acquired |-> 0, configured |-> 0]
      ELSE IF ~GetContextWebgpu(supports[cv], mode[cv])
           THEN [ok |-> FALSE, ctx |-> NoContext,
                 map |-> ContextSet(map, cv, NoContext), mode |-> mode,
                 acquired |-> 0, configured |-> 0]
           ELSE LET ctx == [canvas |-> cv, device |-> dev]
                IN  [ok |-> TRUE, ctx |-> ctx, map |-> ContextSet(map, cv, ctx),
                     mode |-> [mode EXCEPT ![cv] = "webgpu"],
                     acquired |-> 1, configured |-> 1]

\* lines 345-359: the context of the canvas, cached or acquired and configured
AcquireContext(map, mode, supports, cv, dev) ==
  LET cached == ContextGet(map, cv)
  IN  IF cached # NoContext
      THEN [ok |-> TRUE, ctx |-> cached, map |-> map, mode |-> mode,
            acquired |-> 0, configured |-> 0]
      ELSE IF ~GetContextWebgpu(supports[cv], mode[cv])
           THEN [ok |-> FALSE, ctx |-> NoContext, map |-> map, mode |-> mode,
                 acquired |-> 0, configured |-> 0]
           ELSE LET ctx == [canvas |-> cv, device |-> dev]
                IN  [ok |-> TRUE, ctx |-> ctx, map |-> ContextSet(map, cv, ctx),
                     mode |-> [mode EXCEPT ![cv] = "webgpu"],
                     acquired |-> 1, configured |-> 1]

\* lines 368-387: the pipeline, cached or created on the current device
EnsurePipeline(pipe, dev, made) ==
  IF PipelineCached(pipe)
  THEN [pipe |-> pipe, created |-> 0]
  ELSE [pipe |-> [id |-> made + 1, device |-> dev], created |-> 1]

\* lines 345-469: everything after the device block, which runs without
\* suspension. dev is gpuDevice at that point.
RenderTail(c, rec, dev) ==
  LET cv == rec.canvas
      ac == AcquireContext(gpuContextMap, canvasMode, canvasSupportsGpu, cv, dev)
      ep == EnsurePipeline(gpuPipeline, dev, pipelinesMade)
  IN  IF ~ac.ok
      THEN /\ calls' = [calls EXCEPT ![c] =
                          [rec EXCEPT !.pc = "rejected", !.error = E_NO_CONTEXT,
                                      !.contextError = TRUE]]
           /\ gpuContextMap' = ac.map
           /\ UNCHANGED <<canvasMode, gpuPipeline, pipelinesMade,
                          shaderModulesMade, configures, acquisitions, submits,
                          anySuccess>>
      ELSE /\ gpuContextMap' = ac.map
           /\ canvasMode' = ac.mode
           /\ acquisitions' = [acquisitions EXCEPT ![cv] = @ + ac.acquired]
           /\ configures' = [configures EXCEPT ![cv] = @ + ac.configured]
           /\ IF dev = NULL
              THEN /\ calls' = [calls EXCEPT ![c] =
                                  [rec EXCEPT !.pc = "rejected",
                                              !.error = E_DEVICE_UNAVAILABLE]]
                   /\ UNCHANGED <<gpuPipeline, pipelinesMade, shaderModulesMade,
                                  submits, anySuccess>>
              ELSE /\ gpuPipeline' = ep.pipe
                   /\ pipelinesMade' = pipelinesMade + ep.created
                   /\ shaderModulesMade' = shaderModulesMade + ep.created
                   /\ submits' = Append(submits,
                        [call |-> c, canvas |-> cv, context |-> ac.ctx,
                         pipeline |-> ep.pipe, device |-> dev,
                         uniform |-> PackUniforms(RenderGradients[rec.gradient])])
                   /\ calls' = [calls EXCEPT ![c] = [rec EXCEPT !.pc = "resolved"]]
                   /\ anySuccess' = TRUE

\* mutant: the failure path also forgets the cached pipeline and contexts
FailInitDropsCaches(c, rec, cause, e) ==
  LET fb == cpuFallback(canvasMode, rec.canvas)
      out == AfterFallback(e)
  IN  /\ canvasMode' = fb.mode
      /\ calls' = [calls EXCEPT ![c] =
                     [rec EXCEPT !.pc = out.pc, !.error = out.error,
                                 !.cause = cause,
                                 !.fallback = fb.fallback,
                                 !.fallbackCanvas = fb.canvas]]
      /\ gpuPipeline' = NoPipeline
      /\ gpuContextMap' = << >>
      /\ UNCHANGED <<pipelinesMade, shaderModulesMade, configures,
                     acquisitions, submits, anySuccess>>

\* the failure path of the device block: fallback, then the error.
\* cause records which acquisition step failed.
FailInit(c, rec, cause, e) ==
  LET fb == cpuFallback(canvasMode, rec.canvas)
      out == AfterFallback(e)
  IN  /\ canvasMode' = fb.mode
      /\ calls' = [calls EXCEPT ![c] =
                     [rec EXCEPT !.pc = out.pc, !.error = out.error,
                                 !.cause = cause,
                                 !.fallback = fb.fallback,
                                 !.fallbackCanvas = fb.canvas]]
      /\ UNCHANGED <<gpuContextMap, gpuPipeline, pipelinesMade,
                     shaderModulesMade, configures, acquisitions, submits,
                     anySuccess>>

\* ------------------------------------------------------------------------
\* renderGradientGL: one action per run between suspension points
\* ------------------------------------------------------------------------

\* a call is issued and runs up to its first await (or to its end)
Start(cv, g) ==
  /\ nIssued < MaxCalls
  /\ LET c == nIssued + 1
         rec == [IdleCall EXCEPT !.canvas = cv, !.gradient = g,
                                 !.afterSuccess = anySuccess,
                                 !.overlaps = {k \in CallIds : Pending(k)}]
     IN  /\ nIssued' = c
         /\ UNCHANGED <<gpuDevice, hasGpu, canvasSupportsGpu, devicesMade>>
         /\ IF DeviceCached(gpuDevice)
            THEN RenderTail(c, rec, gpuDevice)
            ELSE IF ~hasGpu
                 THEN FailInit(c, rec, "noGpu", E_NOT_SUPPORTED)
                 ELSE /\ calls' = [calls EXCEPT ![c] =
                                     [rec EXCEPT !.pc = "awaitAdapter",
                                                 !.adapterReqs = 1]]
                      /\ UNCHANGED <<gpuContextMap, gpuPipeline, canvasMode,
                                     pipelinesMade, shaderModulesMade, configures,
                                     acquisitions, submits, anySuccess>>
  /\ UNCHANGED <<pureVars, webVars>>

\* navigator.gpu.requestAdapter() settles: an adapter, null, or a rejection
AdapterSettles(c, res) ==
  /\ calls[c].pc = "awaitAdapter"
  /\ UNCHANGED <<gpuDevice, hasGpu, canvasSupportsGpu, devicesMade, nIssued>>
  /\ IF res = "adapter"
     THEN /\ calls' = [calls EXCEPT ![c].pc = "awaitDevice", ![c].deviceReqs = 1]
          /\ UNCHANGED <<gpuContextMap, gpuPipeline, canvasMode, pipelinesMade,
                         shaderModulesMade, configures, acquisitions, submits,
                         anySuccess>>
     ELSE IF res = "null"
          THEN FailInit(c, calls[c], "adapterNull", E_NO_ADAPTER)
          ELSE FailInit(c, calls[c], "adapterRejected", E_ADAPTER_REJECTED)
  /\ UNCHANGED <<pureVars, webVars>>

\* What adapter.requestDevice() can settle with. The WebGPU API resolves with
\* a GPUDevice or rejects; it never resolves with null, so "null" is not an
\* outcome although lines 331-333 test for it.
DeviceOutcomes == {"device", "reject"}

\* adapter.requestDevice() settles; `gpuDevice = await ...` stores the value
DeviceSettles(c, res) ==
  /\ calls[c].pc = "awaitDevice"
  /\ UNCHANGED <<hasGpu, canvasSupportsGpu, nIssued>>
  /\ IF res = "device"
     THEN /\ devicesMade' = devicesMade + 1
          /\ gpuDevice' = devicesMade + 1
          /\ RenderTail(c, calls[c], devicesMade + 1)
     ELSE IF res = "null"
          THEN /\ gpuDevice' = NULL
               /\ UNCHANGED devicesMade
               /\ FailInit(c, calls[c], "deviceNull", E_DEVICE_NULL)
          ELSE /\ UNCHANGED <<gpuDevice, devicesMade>>
               /\ FailInit(c, calls[c], "deviceRejected", E_DEVICE_REJECTED)
  /\ UNCHANGED <<pureVars, webVars>>

Next ==
  \/ \E cv \in Canvases, g \in 1..Len(RenderGradients) : Start(cv, g)
  \/ \E c \in CallIds, res \in {"adapter", "null", "reject"} : AdapterSettles(c, res)
  \/ \E c \in CallIds, res \in DeviceOutcomes : DeviceSettles(c, res)

Spec == Init /\ [][Next]_vars

\* ------------------------------------------------------------------------
\* The pure pipeline: pack a gradient (gpu.ts step 3), then run the fragment
\* shader on the packed buffer for one value of t
\* ------------------------------------------------------------------------

\* stop positions of the short inputs: below 0, the ends, a segment of
\* width 0.00001, the middle, above 1
ShortPositions == {0 - 50000, 0, 1, 50000, 100000, 150000}

\* stop positions of the long inputs (more stops than MAX_STOPS)
LongPositions == {30000, 70000}

SeqsOver(S, lo, hi) == UNION {[1..n -> S] : n \in lo..hi}

InputPositions ==
  SeqsOver(ShortPositions, 0, MaxShort)
    \cup SeqsOver(LongPositions, MaxShort + 1, MaxLong)

Angles == {0, 90}

\* values of t = clamp(dot(uv - 0.5, angle_vec) + 0.5, 0, 1) (fs_main line 50)
TValues == {0, 1, 2, 25000, 50000, 75000, 100000}

InitPack ==
  /\ GpuInit
  /\ WebOff
  /\ hasGpu = TRUE
  /\ canvasSupportsGpu = [cv \in Canvases |-> TRUE]
  /\ \E ps \in InputPositions, angle \in Angles : gradient = MkGradient(ps, angle)
  /\ stage = "input"
  /\ sortedStops = << >>
  /\ uniformData = << >>
  /\ tIn = 0
  /\ fragOut = NoFrag
  /\ gradientIn = gradient
  /\ ret = NoOut
  /\ colorCall = NoColorCall

\* the argument object after a function that sorts a copy of its stops
AfterSort(g) == [g EXCEPT !.stops = SpreadSort(g.stops).array]

\* gpu.ts lines 390-429
Pack ==
  /\ stage = "input"
  /\ sortedStops' = SelectStops(gradient)
  /\ uniformData' = PackUniforms(gradient)
  /\ gradient' = AfterSort(gradient)
  /\ ret' = [NoOut EXCEPT !.op = "renderGradientGL"]
  /\ stage' = "packed"
  /\ UNCHANGED <<tIn, fragOut, gradientIn, colorCall>>
  /\ UNCHANGED <<gpuVars, webVars>>

\* shader.wgsl fs_main for one fragment
Fragment(t) ==
  /\ stage = "packed"
  /\ tIn' = t
  /\ fragOut' = fs_main(uniformData, t)
  /\ stage' = "shaded"
  /\ UNCHANGED <<gradient, sortedStops, uniformData, gradientIn, ret, colorCall>>
  /\ UNCHANGED <<gpuVars, webVars>>

NextPack ==
  \/ Pack
  \/ \E t \in TValues : Fragment(t)

SpecPack == InitPack /\ [][NextPack]_vars

\* ------------------------------------------------------------------------
\* Claims about the device, pipeline and context caches (Spec)
\* ------------------------------------------------------------------------
Issued(c) == calls[c].pc # "idle"

SubmitsOf(c) == {i \in 1..Len(submits) : submits[i].call = c}

\* C1: when a call is issued while an earlier call's device initialization
\* is still pending, the two calls together invoke requestAdapter at most
\* once and requestDevice at most once (the second awaits the first).
C1_SingleInFlightInit ==
  \A c1 \in CallIds, c2 \in CallIds :
    (Issued(c2) /\ c1 \in calls[c2].overlaps)
      => /\ calls[c1].adapterReqs + calls[c2].adapterReqs <= 1
         /\ calls[c1].deviceReqs + calls[c2].deviceReqs <= 1

C3_PipelineCreatedOnce ==
  /\ pipelinesMade <= 1
  /\ shaderModulesMade <= 1
  /\ \A i \in 1..Len(submits) :
       /\ submits[i].pipeline # NoPipeline
       /\ submits[i].pipeline = gpuPipeline

C3_Witness ==
  /\ Len(submits) >= 2
  /\ pipelinesMade = 1
  /\ \E i \in 1..Len(submits), j \in 1..Len(submits) :
       /\ submits[i].canvas # submits[j].canvas
       /\ submits[i].uniform # submits[j].uniform
       /\ submits[i].call \in calls[submits[j].call].overlaps

\* C4: per canvas a WebGPU context is obtained at most once and configured
\* at most once; every draw for a canvas uses the context cached for that
\* canvas, which belongs to that canvas.
C4_ContextPerCanvas ==
  /\ \A cv \in Canvases : acquisitions[cv] <= 1 /\ configures[cv] <= 1
  /\ \A cv \in DOMAIN gpuContextMap : gpuContextMap[cv].canvas = cv
  /\ \A i \in 1..Len(submits) :
       /\ submits[i].context.canvas = submits[i].canvas
       /\ submits[i].canvas \in DOMAIN gpuContextMap
       /\ submits[i].context = gpuContextMap[submits[i].canvas]

C4_Witness ==
  \E i \in 1..Len(submits), j \in 1..Len(submits) :
    /\ i < j
    /\ submits[i].canvas = submits[j].canvas
    /\ configures[submits[i].canvas] = 1

\* C5: a call whose device acquisition failed (navigator.gpu absent, adapter
\* null, requestAdapter or requestDevice rejected) has run the CPU fallback
\* on its own canvas and has rejected with a device error; it has not
\* resolved and has submitted nothing.
C5_InitFailureRejects ==
  \A c \in CallIds :
    calls[c].cause # "none"
      => /\ calls[c].pc = "rejected"
         /\ calls[c].error \in DeviceErrors
         /\ calls[c].fallback \in {"painted", "no2d"}
         /\ calls[c].fallbackCanvas = calls[c].canvas
         /\ SubmitsOf(c) = {}

C5_Witness ==
  /\ \E c \in CallIds : calls[c].cause = "deviceRejected"
                        /\ calls[c].fallback = "painted"
  /\ \E c \in CallIds : calls[c].cause = "adapterNull"

\* C6: a call whose canvas yields no WebGPU context rejects with the context
\* error, which is not a device error, without running the CPU fallback and
\* without the canvas entering the context cache; the step in which it
\* fails leaves the pipeline cache and the context cache as they were and
\* the device stays cached (unchanged when the call found it cached; the
\* one its own device block stored otherwise), so a call issued after it
\* makes no device request and ends with a draw unless its own canvas yields
\* no context either.
C6_StateOk ==
  \A c \in CallIds :
    calls[c].contextError
      => /\ calls[c].pc = "rejected"
         /\ calls[c].error = E_NO_CONTEXT
         /\ calls[c].error \notin DeviceErrors
         /\ calls[c].fallback = "none"
         /\ calls[c].canvas \notin DOMAIN gpuContextMap
         /\ SubmitsOf(c) = {}
         /\ gpuDevice # NULL
         /\ \A d \in CallIds :
              (d > c /\ Issued(d) /\ c \notin calls[d].overlaps)
                => /\ calls[d].adapterReqs = 0 /\ calls[d].deviceReqs = 0
                   /\ calls[d].pc = "resolved" \/ calls[d].contextError

C24_DrawOnOneDevice ==
  \A i \in 1..Len(submits) :
    /\ submits[i].pipeline.device = submits[i].device
    /\ submits[i].context.device = submits[i].device

Packed == stage \in {"packed", "shaded"}

NumIn == Len(gradient.stops)

\* number of stops that come before stop m in ascending position order, ties
\* in original order
Rank(m) ==
  Cardinality({k \in 1..NumIn :
     \/ gradient.stops[k].position < gradient.stops[m].position
     \/ /\ gradient.stops[k].position = gradient.stops[m].position
        /\ k < m})

StopOfRank(j) == CHOOSE m \in 1..NumIn : Rank(m) = j

ZeroRecord == [pos |-> 0, r |-> 0, g |-> 0, b |-> 0]

\* C7: num_stops = min(n, MAX_STOPS), and record j < num_stops holds the
\* stop that is j-th in ascending position order (ties in original order):
\* its position and its colour converted to linear RGB. Later stops are
\* dropped.
C7_LowestStopsPacked ==
  Packed =>
    LET u == ReadUniforms(uniformData)
    IN  /\ u.num_stops = Min(NumIn, MAX_STOPS)
        /\ Len(sortedStops) = u.num_stops
        /\ \A j \in 0..(u.num_stops - 1) :
             LET stop == gradient.stops[StopOfRank(j)]
                 rgb == oklabToLinearRgb(stop.color)
             IN  /\ sortedStops[j + 1] = stop
                 /\ u.stops[j].pos = stop.position
                 /\ <<u.stops[j].r, u.stops[j].g, u.stops[j].b>> = rgb

C7_Witness ==
  /\ Packed
  /\ NumIn > MAX_STOPS
  /\ ReadUniforms(uniformData).num_stops = MAX_STOPS
  /\ \E k \in 1..NumIn :
       /\ Rank(k) >= MAX_STOPS
       /\ k < StopOfRank(MAX_STOPS - 1)
       /\ gradient.stops[k].position > gradient.stops[StopOfRank(0)].position

\* C8: the buffer is 144 bytes: a 16-byte header (angle_rad, num_stops, two
\* zero words) and MAX_STOPS records of 16 bytes read by the shader as
\* (pos, r, g, b); every record from num_stops on is all zeros.
C8_FixedLayout ==
  Packed =>
    LET u == ReadUniforms(uniformData)
    IN  /\ Len(uniformData) * 4 = 144
        /\ Len(uniformData) * 4 = HeaderBytes + MAX_STOPS * stopStructSizeBytes
        /\ u.angle_rad = AngleRad(gradient.angle)
        /\ u.num_stops = Len(sortedStops)
        /\ u.padding1 = 0 /\ u.padding2 = 0
        /\ \A j \in 0..(MAX_STOPS - 1) :
             IF j < u.num_stops
             THEN LET rgb == oklabToLinearRgb(sortedStops[j + 1].color)
                  IN  u.stops[j] = [pos |-> sortedStops[j + 1].position,
                                    r |-> rgb[1], g |-> rgb[2], b |-> rgb[3]]
             ELSE u.stops[j] = ZeroRecord

C8_Witness ==
  /\ Packed
  /\ gradient.angle # 0
  /\ ReadUniforms(uniformData).num_stops = 2
  /\ ReadUniforms(uniformData).stops[1].pos # 0
  /\ ReadUniforms(uniformData).stops[1].g # 0
  /\ ReadUniforms(uniformData).stops[1].g # ReadUniforms(uniformData).stops[1].r

\* C9: every position written into records 0..num_stops-1 lies in [0,1].
C9_PackedPositionsClamped ==
  Packed =>
    LET u == ReadUniforms(uniformData)
    IN  \A j \in 0..(u.num_stops - 1) :
          0 <= u.stops[j].pos /\ u.stops[j].pos <= PosScale

\* C10: for num_stops >= 2, records in non-decreasing position order and t
\* in [0,1]: the first pair with pos[i] <= t < pos[i+1] is the segment
\* used; for t >= pos[num_stops-1] the last pair is used; the local factor
\* is clamp((t - pos_a) / (pos_b - pos_a), 0, 1), or 0 when the width is at
\* most 0.00001, and a division happens only by a positive width.
MatchingPairs(u, t) ==
  {i \in 0..(u.num_stops - 2) : u.stops[i].pos <= t /\ t < u.stops[i + 1].pos}

MinOf(S) == CHOOSE x \in S : \A y \in S : x <= y

NonDecreasing(u) ==
  \A i \in 0..(u.num_stops - 2) : u.stops[i].pos <= u.stops[i + 1].pos

C10_SegmentAndLocalFactor ==
  (stage = "shaded" /\ ReadUniforms(uniformData).num_stops >= 2
     /\ NonDecreasing(ReadUniforms(uniformData))
     /\ 0 <= tIn /\ tIn <= PosScale)
    =>
    LET u == ReadUniforms(uniformData)
        n == u.num_stops
        M == MatchingPairs(u, tIn)
        a == u.stops[fragOut.sel[1]].pos
        b == u.stops[fragOut.sel[2]].pos
        lt == fragOut.local_t
    IN  /\ fragOut.branch = "segment"
        /\ M # {} => fragOut.sel = <<MinOf(M), MinOf(M) + 1>>
        /\ tIn >= u.stops[n - 1].pos => fragOut.sel = <<n - 2, n - 1>>
        /\ lt.divided => lt.den > 0
        /\ lt.den > 0
        /\ IF b - a <= PosScale \div 100000
           THEN lt.num = 0 /\ ~lt.divided
           ELSE /\ lt.den = b - a
                /\ lt.num = clamp(tIn - a, 0, b - a)
                /\ lt.divided

C10_Witness ==
  /\ stage = "shaded"
  /\ ReadUniforms(uniformData).num_stops = 3
  /\ fragOut.sel = <<0, 1>>
  /\ fragOut.local_t.divided
  /\ 0 < fragOut.local_t.num
  /\ fragOut.local_t.num < fragOut.local_t.den

\* C23: with at least two packed stops and t in [0,1] below the first
\* stop's position, the fragment shader outputs the first stop's colour.
C23_HeldBeforeFirstStop ==
  LET u == ReadUniforms(uniformData)
  IN  (stage = "shaded" /\ u.num_stops >= 2
         /\ 0 <= tIn /\ tIn <= PosScale /\ tIn < u.stops[0].pos)
        => fragOut.color = <<u.stops[0].r, u.stops[0].g, u.stops[0].b>>

\* C11: a gradient with zero stops or one stop is packed like any other
\* (num_stops is the number of stops, 0 or 1, and the packing step is always
\* possible), and the fragment shader then takes no segment: every fragment
\* is black when num_stops = 0 and has stop 0's colour when num_stops = 1.
C11_FewStopsRender ==
  /\ (stage = "input" /\ NumIn < 2) => ENABLED Pack
  /\ (Packed /\ NumIn < 2) =>
        /\ ReadUniforms(uniformData).num_stops = NumIn
        /\ Len(sortedStops) = NumIn
  /\ (stage = "shaded" /\ NumIn = 0) =>
        /\ fragOut.branch = "empty"
        /\ fragOut.color = <<0, 0, 0>>
  /\ (stage = "shaded" /\ NumIn = 1) =>
        /\ fragOut.branch = "single"
        /\ fragOut.color = oklabToLinearRgb(gradient.stops[1].color)
        /\ fragOut.color = << ReadUniforms(uniformData).stops[0].r,
                              ReadUniforms(uniformData).stops[0].g,
                              ReadUniforms(uniformData).stops[0].b >>

\* a one-stop gradient whose colour is not black has been shaded at a t away
\* from the stop's position
C11_Witness ==
  /\ stage = "shaded"
  /\ NumIn = 1
  /\ fragOut.color # <<0, 0, 0>>
  /\ tIn # gradient.stops[1].position

\* ------------------------------------------------------------------------
\* gradient.ts: contrastAudit
\* ------------------------------------------------------------------------

\* lines 77-87: the private OKLab -> linear RGB chain of calculateContrastRatio,
\* with the matrices of lines 106-120 (the same values as gpu.ts's copy)
getLinearRgb(oklab) ==
  LET mapped == multiplyMatrix3x3(M_OKLAB_TO_LMS, <<oklab.l, oklab.a, oklab.b>>)
      cone   == unmapLms(mapped)
      xyz    == multiplyMatrix3x3(M_LMS_TO_XYZ, cone)
      rgb    == multiplyMatrix3x3(M_XYZ_TO_RGB, xyz)
  IN  << clamp(rgb[1], 0, FP), clamp(rgb[2], 0, FP), clamp(rgb[3], 0, FP) >>

\* 0.2126 r + 0.7152 g + 0.0722 b, in 1/FP
calculateRelativeLuminance(rgb) ==
  (2126 * rgb[1] + 7152 * rgb[2] + 722 * rgb[3]) \div 10000

\* (lighter + 0.05) / (darker + 0.05), kept as a fraction of two 1/FP values
calculateContrastRatio(color1, color2) ==
  LET lum1 == calculateRelativeLuminance(getLinearRgb(color1))
      lum2 == calculateRelativeLuminance(getLinearRgb(color2))
  IN  [num |-> Max(lum1, lum2) + (FP \div 20),
       den |-> Min(lum1, lum2) + (FP \div 20)]

\* ratio < threshold, the threshold given in tenths
RatioBelow(ratio, th10) == ratio.num * 10 < th10 * ratio.den

\* mutant: the loop of lines 146-155 leaving at the first failing pair
RECURSIVE AuditPairsFirstOnly(_, _, _, _)
AuditPairsFirstOnly(sortedStopsL, i, th10, failingPairs) ==
  IF i >= Len(sortedStopsL) THEN failingPairs
  ELSE IF RatioBelow(calculateContrastRatio(sortedStopsL[i].color,
                                            sortedStopsL[i + 1].color), th10)
       THEN Append(failingPairs, <<sortedStopsL[i].id, sortedStopsL[i + 1].id>>)
       ELSE AuditPairsFirstOnly(sortedStopsL, i + 1, th10, failingPairs)

\* lines 146-155; i counts from 1
RECURSIVE AuditPairs(_, _, _, _)
AuditPairs(sortedStopsL, i, th10, failingPairs) ==
  IF i >= Len(sortedStopsL) THEN failingPairs
  ELSE LET stop1 == sortedStopsL[i]
           stop2 == sortedStopsL[i + 1]
           ratio == calculateContrastRatio(stop1.color, stop2.color)
       IN  AuditPairs(sortedStopsL, i + 1, th10,
                      IF RatioBelow(ratio, th10)
                      THEN Append(failingPairs, <<stop1.id, stop2.id>>)
                      ELSE failingPairs)

\* mutant: contrastAudit walking g.stops as given, without the sort of line 144
contrastAuditUnsorted(g, th10) ==
  IF Len(g.stops) < 2 THEN << >>
  ELSE AuditPairs(g.stops, 1, th10, << >>)

\* lines 138-158
contrastAudit(g, th10) ==
  IF Len(g.stops) < 2 THEN << >>
  ELSE AuditPairs(SpreadSort(g.stops).result, 1, th10, << >>)

\* the argument after contrastAudit: line 144 is reached with 2 stops or more
AfterAudit(g) == IF Len(g.stops) < 2 THEN g ELSE AfterSort(g)

\* ------------------------------------------------------------------------
\* The pure functions of gradient.ts (and the packing of gpu.ts) applied to
\* one gradient
\* ------------------------------------------------------------------------
MaxModelStops == 3

GradientTypes == {"linear", "radial", "conic"}

\* below 0, the ends, two positions whose percentage needs rounding, above 1
ModelPositions == {0 - 50000, 0, 33333, 66667, 100000, 150000}

\* angles outside [0, 360): emitted as they are
ModelAngles == {0 - 45, 450}

\* thresholds in tenths: nothing fails, the default 4.5, everything fails
Thresholds10 == {10, 45, 220}

InitModel ==
  /\ GpuInit
  /\ WebOff
  /\ hasGpu = TRUE
  /\ canvasSupportsGpu = [cv \in Canvases |-> TRUE]
  /\ \E ps \in SeqsOver(ModelPositions, 0, MaxModelStops),
        angle \in ModelAngles, ty \in GradientTypes :
       gradient = [MkGradient(ps, angle) EXCEPT !.type = ty]
  /\ stage = "input"
  /\ sortedStops = << >>
  /\ uniformData = << >>
  /\ tIn = 0
  /\ fragOut = NoFrag
  /\ gradientIn = gradient
  /\ ret = NoOut
  /\ colorCall = NoColorCall

ContrastAudit(th10) ==
  /\ stage = "input"
  /\ ret' = [op |-> "contrastAudit", value |-> contrastAudit(gradient, th10),
             threshold |-> th10]
  /\ gradient' = AfterAudit(gradient)
  /\ stage' = "done"
  /\ UNCHANGED <<sortedStops, uniformData, tIn, fragOut, gradientIn, colorCall>>
  /\ UNCHANGED <<gpuVars, webVars>>


\* ------------------------------------------------------------------------
\* color.ts, in fixed point: a value v is the integer v * ColorScale
\* ------------------------------------------------------------------------
ColorScale == 1000000

Abs(x) == IF x < 0 THEN 0 - x ELSE x

\* the product of two values. The factors are split at 1000 so that no
\* intermediate product leaves the 32-bit range; the result is within 2 units
\* of the exact product.
MulC(a, b) ==
  LET ah == Abs(a) \div 1000
      al == Abs(a) % 1000
      bh == Abs(b) \div 1000
      bl == Abs(b) % 1000
      p  == ah * bh + (ah * bl + al * bh) \div 1000 + (al * bl) \div ColorScale
  IN  IF (a < 0) = (b < 0) THEN p ELSE 0 - p

\* lines 514-551
Color_M_RGB_TO_XYZ ==
  <<412456, 357576, 180438, 212673, 715152, 72175, 19334, 119192, 950304>>
Color_M_XYZ_TO_LMS ==
  <<895100, 266400, -161400, -750200, 1713500, 36700, 38900, -68500, 1029600>>
Color_M_LMS_TO_OKLAB ==
  <<210454, 793618, -4072, 1977998, -2428592, 450594, 25904, 782772, -808676>>
Color_M_OKLAB_TO_LMS ==
  <<1000000, 396338, 215804, 1000000, -105561, -63854, 1000000, -89484, -1291486>>
Color_M_LMS_TO_XYZ ==
  <<986993, -147054, 159963, 432305, 518360, 49291, -8529, 40043, 968487>>
Color_M_XYZ_TO_RGB ==
  <<3240454, -1537139, -498531, -969266, 1876011, 41556, 55643, -204026, 1057225>>

\* lines 563-569
Color_multiplyMatrix3x3(M, v) ==
  << MulC(M[1], v[1]) + MulC(M[2], v[2]) + MulC(M[3], v[3]),
     MulC(M[4], v[1]) + MulC(M[5], v[2]) + MulC(M[6], v[3]),
     MulC(M[7], v[1]) + MulC(M[8], v[2]) + MulC(M[9], v[3]) >>

\* x ** 3
CubeC(x) == MulC(MulC(x, x), x)

\* Math.cbrt for x > 0 by bisection: the least y with CubeC(y) >= x, kept
\* between lo and hi with CubeC(lo) < x <= CubeC(hi)
RECURSIVE CbrtSearch(_, _, _)
CbrtSearch(x, lo, hi) ==
  IF hi - lo <= 1 THEN hi
  ELSE LET mid == (lo + hi) \div 2
       IN  IF CubeC(mid) >= x THEN CbrtSearch(x, lo, mid)
           ELSE CbrtSearch(x, mid, hi)

\* Math.cbrt: odd, 0 at 0
CbrtC(x) ==
  IF x = 0 THEN 0
  ELSE IF x < 0 THEN 0 - CbrtSearch(0 - x, 0, 2 * ColorScale)
  ELSE CbrtSearch(x, 0, 2 * ColorScale)

\* mutant: mapLms without the cube root
mapLmsNoRoot(lms) == lms

\* lines 572-574
mapLms(lms) == << CbrtC(lms[1]), CbrtC(lms[2]), CbrtC(lms[3]) >>

\* lines 576-578
Color_unmapLms(v) == << CubeC(v[1]), CubeC(v[2]), CubeC(v[3]) >>

\* srgbToLinear(k / 255) for the 256 channel values k (lines 555-557), entry
\* k + 1 holding the value for k
SrgbToLinearTable ==
  << 0, 304, 607, 911, 1214, 1518, 1821, 2125,
     2428, 2732, 3035, 3347, 3677, 4025, 4391, 4777,
     5182, 5605, 6049, 6512, 6995, 7499, 8023, 8568,
     9134, 9721, 10330, 10960, 11612, 12286, 12983, 13702,
     14444, 15209, 15996, 16807, 17642, 18500, 19382, 20289,
     21219, 22174, 23153, 24158, 25187, 26241, 27321, 28426,
     29557, 30713, 31896, 33105, 34340, 35601, 36889, 38204,
     39546, 40915, 42311, 43735, 45186, 46665, 48172, 49707,
     51269, 52861, 54480, 56128, 57805, 59511, 61246, 63010,
     64803, 66626, 68478, 70360, 72272, 74214, 76185, 78187,
     80220, 82283, 84376, 86500, 88656, 90842, 93059, 95307,
     97587, 99899, 102242, 104616, 107023, 109462, 111932, 114435,
     116971, 119538, 122139, 124772, 127438, 130136, 132868, 135633,
     138432, 141263, 144128, 147027, 149960, 152926, 155926, 158961,
     162029, 165132, 168269, 171441, 174647, 177888, 181164, 184475,
     187821, 191202, 194618, 198069, 201556, 205079, 208637, 212231,
     215861, 219526, 223228, 226966, 230740, 234551, 238398, 242281,
     246201, 250158, 254152, 258183, 262251, 266356, 270498, 274677,
     278894, 283149, 287441, 291771, 296138, 300544, 304987, 309469,
     313989, 318547, 323143, 327778, 332452, 337164, 341914, 346704,
     351533, 356400, 361307, 366253, 371238, 376262, 381326, 386429,
     391572, 396755, 401978, 407240, 412543, 417885, 423268, 428690,
     434154, 439657, 445201, 450786, 456411, 462077, 467784, 473531,
     479320, 485150, 491021, 496933, 502886, 508881, 514918, 520996,
     527115, 533276, 539479, 545724, 552011, 558340, 564712, 571125,
     577580, 584078, 590619, 597202, 603827, 610496, 617207, 623960,
     630757, 637597, 644480, 651406, 658375, 665387, 672443, 679542,
     686685, 693872, 701102, 708376, 715694, 723055, 730461, 737910,
     745404, 752942, 760525, 768151, 775822, 783538, 791298, 799103,
     806952, 814847, 822786, 830770, 838799, 846873, 854993, 863157,
     871367, 879622, 887923, 896269, 904661, 913099, 921582, 930111,
     938686, 947307, 955973, 964686, 973445, 982251, 991102, 1000000 >>

\* srgbToLinear of a channel byte
srgbToLinear(k) == SrgbToLinearTable[k + 1]

\* entry k is the least x with Math.round(clamp(linearToSrgb(x), 0, 1) * 255)
\* >= k, for k = 1..255 (lines 559-561, 639-646)
LinearThresholds ==
  << 152, 456, 759, 1063, 1366, 1670, 1973, 2277,
     2580, 2884, 3189, 3510, 3849, 4206, 4582, 4977,
     5392, 5825, 6278, 6752, 7245, 7759, 8294, 8849,
     9425, 10023, 10643, 11284, 11947, 12632, 13340, 14071,
     14824, 15600, 16399, 17222, 18069, 18939, 19833, 20751,
     21694, 22661, 23653, 24670, 25711, 26778, 27871, 28989,
     30132, 31302, 32498, 33719, 34968, 36243, 37544, 38872,
     40228, 41610, 43020, 44458, 45923, 47415, 48936, 50485,
     52062, 53667, 55301, 56964, 58655, 60376, 62125, 63903,
     65711, 67549, 69416, 71313, 73239, 75196, 77183, 79200,
     81248, 83326, 85435, 87575, 89745, 91947, 94180, 96444,
     98740, 101067, 103426, 105816, 108239, 110694, 113180, 115699,
     118251, 120835, 123452, 126101, 128783, 131499, 134247, 137029,
     139844, 142692, 145574, 148490, 151439, 154423, 157440, 160491,
     163577, 166697, 169851, 173040, 176264, 179522, 182816, 186144,
     189507, 192906, 196340, 199809, 203314, 206854, 210430, 214042,
     217689, 221373, 225093, 228849, 232641, 236470, 240335, 244237,
     248176, 252151, 256163, 260213, 264299, 268423, 272583, 276782,
     281017, 285291, 289602, 293950, 298337, 302761, 307224, 311725,
     316263, 320841, 325456, 330110, 334803, 339535, 344305, 349114,
     353962, 358849, 363775, 368741, 373745, 378790, 383873, 388996,
     394159, 399362, 404605, 409887, 415209, 420572, 425975, 431418,
     436901, 442425, 447989, 453594, 459239, 464926, 470653, 476421,
     482230, 488081, 493972, 499905, 505879, 511895, 517952, 524051,
     530191, 536373, 542597, 548863, 555171, 561521, 567913, 574348,
     580825, 587344, 593905, 600510, 607157, 613846, 620579, 627354,
     634172, 641033, 647938, 654885, 661876, 668910, 675988, 683109,
     690274, 697482, 704734, 712030, 719369, 726753, 734181, 741652,
     749168, 756728, 764333, 771982, 779675, 787413, 795195, 803022,
     810894, 818811, 826773, 834779, 842831, 850928, 859070, 867257,
     875490, 883768, 892091, 900460, 908875, 917335, 925841, 934393,
     942991, 951635, 960325, 969060, 977843, 986671, 995546 >>

\* Math.round(clamp(linearToSrgb(clamp(x, 0, 1)), 0, 1) * 255), lines 628-646
LinearToByte(x) ==
  Cardinality({k \in 1..Len(LinearThresholds) : LinearThresholds[k] <= x})

\* A string is a sequence of one-character strings.
HexDigitsLower ==
  <<"0", "1", "2", "3", "4", "5", "6", "7", "8", "9", "a", "b", "c", "d", "e", "f">>
HexDigitsUpper ==
  <<"0", "1", "2", "3", "4", "5", "6", "7", "8", "9", "A", "B", "C", "D", "E", "F">>

IsHexDigit(ch) ==
  \E v \in 1..16 : HexDigitsLower[v] = ch \/ HexDigitsUpper[v] = ch

HexDigitValue(ch) ==
  (CHOOSE v \in 1..16 : HexDigitsLower[v] = ch \/ HexDigitsUpper[v] = ch) - 1

\* String.prototype.slice(1)
Slice1(str) == SubSeq(str, 2, Len(str))

\* parseInt(str, 16): the values of the longest prefix of hex digits; the
\* empty sequence stands for NaN
RECURSIVE ParseIntHex(_)
ParseIntHex(str) ==
  IF str = << >> \/ ~IsHexDigit(Head(str)) THEN << >>
  ELSE <<HexDigitValue(Head(str))>> \o ParseIntHex(Tail(str))

\* (bigint >> shift) & 255 for shift in {16, 8, 0}: the two hex digits that
\* start shift / 4 places from the right, 0 where the number has no digit
\* (and 0 throughout for NaN, which >> turns into 0)
ShiftAndMask(digits, shift) ==
  LET d(i) == IF i <= Len(digits) THEN digits[Len(digits) + 1 - i] ELSE 0
  IN  16 * d((shift \div 4) + 2) + d((shift \div 4) + 1)

\* lines 585-610. The function has no throw statement: it returns a colour
\* for every string.
hexToOKLab(hex) ==
  LET bigint == ParseIntHex(Slice1(hex))
      r == ShiftAndMask(bigint, 16)
      g == ShiftAndMask(bigint, 8)
      b == ShiftAndMask(bigint, 0)
      lin == << srgbToLinear(r), srgbToLinear(g), srgbToLinear(b) >>
      xyz == Color_multiplyMatrix3x3(Color_M_RGB_TO_XYZ, lin)
      lms == Color_multiplyMatrix3x3(Color_M_XYZ_TO_LMS, xyz)
      lab == Color_multiplyMatrix3x3(Color_M_LMS_TO_OKLAB, mapLms(lms))
  IN  [threw |-> "none", bytes |-> <<r, g, b>>,
       color |-> [l |-> lab[1], a |-> lab[2], b |-> lab[3]]]

\* Number.prototype.toString(16).padStart(2, '0') of a byte
ByteToHex(k) == << HexDigitsLower[(k \div 16) + 1], HexDigitsLower[(k % 16) + 1] >>

\* lines 616-651
oklabToHex(oklab) ==
  LET mapped == Color_multiplyMatrix3x3(Color_M_OKLAB_TO_LMS,
                                        <<oklab.l, oklab.a, oklab.b>>)
      cone == Color_unmapLms(mapped)
      xyz == Color_multiplyMatrix3x3(Color_M_LMS_TO_XYZ, cone)
      rgb == Color_multiplyMatrix3x3(Color_M_XYZ_TO_RGB, xyz)
  IN  <<"#">> \o ByteToHex(LinearToByte(clamp(rgb[1], 0, ColorScale)))
             \o ByteToHex(LinearToByte(clamp(rgb[2], 0, ColorScale)))
             \o ByteToHex(LinearToByte(clamp(rgb[3], 0, ColorScale)))

\* an OKLab value of the gradient model (1/FP) as a value of color.ts
ToColorScale(c) ==
  [l |-> c.l * (ColorScale \div FP), a |-> c.a * (ColorScale \div FP),
   b |-> c.b * (ColorScale \div FP)]

\* ------------------------------------------------------------------------
\* gradient.ts: toCss, toSvgDefinition, toSvgFile. A returned string is kept
\* as its parts: template literals and join() put the parts side by side.
\* ------------------------------------------------------------------------

Pow10(n) == IF n = 0 THEN 1 ELSE IF n = 1 THEN 10 ELSE 100

\* Number.prototype.toFixed(digits) of the value v / scale: the nearest
\* number with that many decimals, as a sign, an integer part and the
\* sequence of decimal digits
ToFixed(v, scale, digits) ==
  LET q == (Abs(v) * Pow10(digits) + (scale \div 2)) \div scale
  IN  [neg |-> v < 0 /\ q # 0,
       int |-> q \div Pow10(digits),
       frac |-> [i \in 1..digits |-> (q \div Pow10(digits - i)) % 10]]

\* mutant: the percentage of line 58 without clamp
CssPercentUnclamped(position) == ToFixed(position * 100, PosScale, 2)

\* lines 58-59: clamp(stop.position * 100, 0, 100).toFixed(2)
CssPercent(position) ==
  ToFixed(clamp(position * 100, 0, 100 * PosScale), PosScale, 2)

\* lines 56-60: one "<hex> <percent>%" entry
CssEntry(stop) ==
  [hex |-> oklabToHex(ToColorScale(stop.color)), space |-> " ",
   percent |-> CssPercent(stop.position), sign |-> "%"]

CssFallback == [kind |-> "literal", text |-> "background: gray;"]

\* mutant: toCss mapping g.stops as given, without the sort of line 53
toCssUnsorted(g) ==
  IF g.type # "linear" THEN CssFallback
  ELSE [kind |-> "linear-gradient", angle |-> g.angle, unit |-> "deg",
        separator |-> ", ",
        entries |-> [i \in 1..Len(g.stops) |-> CssEntry(g.stops[i])]]

\* lines 46-64
toCss(g) ==
  IF g.type # "linear" THEN CssFallback
  ELSE LET sortedStopsL == SpreadSort(g.stops).result
       IN  [kind |-> "linear-gradient", angle |-> g.angle, unit |-> "deg",
            separator |-> ", ",
            entries |-> [i \in 1..Len(sortedStopsL) |-> CssEntry(sortedStopsL[i])]]

\* Math.cos of an angle in degrees that is a multiple of 45, in 1/MatScale
CosDeg(angle) ==
  <<10000, 7071, 0, -7071, -10000, -7071, 0, 7071>>[((angle % 360) \div 45) + 1]

SinDeg(angle) == CosDeg(angle - 90)

\* lines 189-194: one <stop> element
SvgStop(stop) ==
  [offset |-> ToFixed(clamp(stop.position, 0, PosScale) * 100, PosScale, 1),
   stopColor |-> oklabToHex(ToColorScale(stop.color))]

SvgEmpty == [kind |-> "literal", text |-> "<defs></defs>"]

\* mutant: toSvgDefinition without the type test of lines 168-171
toSvgDefinitionAnyType(g, id) ==
  LET sortedStopsL == SpreadSort(g.stops).result
  IN  [kind |-> "defs", id |-> id, stops |-> [i \in 1..Len(sortedStopsL) |->
                                                SvgStop(sortedStopsL[i])]]

\* lines 167-204
toSvgDefinition(g, id) ==
  IF g.type # "linear" THEN SvgEmpty
  ELSE LET sortedStopsL == SpreadSort(g.stops).result
           half == MatScale \div 2
       IN  [kind |-> "defs", id |-> id,
            x1 |-> ToFixed(Max(0, half - CosDeg(g.angle) \div 2), MatScale, 2),
            y1 |-> ToFixed(Max(0, half - SinDeg(g.angle) \div 2), MatScale, 2),
            x2 |-> ToFixed(Min(MatScale, half + CosDeg(g.angle) \div 2), MatScale, 2),
            y2 |-> ToFixed(Min(MatScale, half + SinDeg(g.angle) \div 2), MatScale, 2),
            gradientUnits |-> "objectBoundingBox",
            stops |-> [i \in 1..Len(sortedStopsL) |-> SvgStop(sortedStopsL[i])]]

\* lines 214-224
toSvgFile(g, width, height) ==
  [kind |-> "svg", width |-> width, height |-> height,
   definition |-> toSvgDefinition(g, "gradient-fill"),
   fill |-> "url(#gradient-fill)"]

\* the argument after toCss or toSvgDefinition: a non-linear gradient
\* returns before the sort
AfterSerialize(g) == IF g.type # "linear" THEN g ELSE AfterSort(g)

Returned(op, value) ==
  /\ stage = "input"
  /\ ret' = [op |-> op, value |-> value, threshold |-> 0]
  /\ gradient' = AfterSerialize(gradient)
  /\ stage' = "done"
  /\ UNCHANGED <<sortedStops, uniformData, tIn, fragOut, gradientIn, colorCall>>
  /\ UNCHANGED <<gpuVars, webVars>>

ToCss == Returned("toCss", toCss(gradient))

ToSvgDefinition == Returned("toSvgDefinition", toSvgDefinition(gradient, "gradient-svg"))

ToSvgFile == Returned("toSvgFile", toSvgFile(gradient, 500, 500))

NextModel ==
  \/ ToCss
  \/ ToSvgDefinition
  \/ ToSvgFile
  \/ \E th10 \in Thresholds10 : ContrastAudit(th10)
  \/ Pack

SpecModel == InitModel /\ [][NextModel]_vars

\* ------------------------------------------------------------------------
\* Properties of the pure functions of gradient.ts
\* ------------------------------------------------------------------------

\* the ranks j whose stops of rank j and j + 1 have a contrast ratio below
\* the threshold
FailingRanks(th10) ==
  {j \in 0..(NumIn - 2) :
     RatioBelow(calculateContrastRatio(gradient.stops[StopOfRank(j)].color,
                                       gradient.stops[StopOfRank(j + 1)].color),
                th10)}

\* the k-th smallest element of a set of numbers
KthOf(S, k) == CHOOSE j \in S : Cardinality({i \in S : i <= j}) = k

ReversedStops(g) ==
  [g EXCEPT !.stops = [i \in 1..Len(g.stops) |-> g.stops[Len(g.stops) + 1 - i]]]

DistinctPositions(g) ==
  \A i, j \in 1..Len(g.stops) :
    i # j => g.stops[i].position # g.stops[j].position

\* C13 as stated: for every gradient and threshold, contrastAudit of the
\* gradient with its stops array reversed returns the same list.
C13_AuditReversalInvariant ==
  ret.op = "contrastAudit" =>
    contrastAudit(ReversedStops(gradientIn), ret.threshold) = ret.value

\* C13, amended: for every threshold and every gradient whose stop positions
\* are pairwise distinct, contrastAudit of the gradient with its stops array
\* reversed returns the same list. (Stops of equal position keep their array
\* order in the stable sort, so reversing the array swaps them.)
C13_AuditReversalDistinctPositions ==
  (ret.op = "contrastAudit" /\ DistinctPositions(gradientIn)) =>
    contrastAudit(ReversedStops(gradientIn), ret.threshold) = ret.value

\* three stops at distinct positions, not in ascending order, audited with a
\* non-empty result
C13_Witness ==
  /\ ret.op = "contrastAudit"
  /\ Len(gradientIn.stops) = 3
  /\ DistinctPositions(gradientIn)
  /\ gradientIn.stops[1].position > gradientIn.stops[2].position
  /\ ret.value # << >>

LinearCss == ret.op = "toCss" /\ gradientIn.type = "linear"

\* C14: for a linear gradient toCss emits "linear-gradient(<angle>deg, ...)"
\* with the angle as given and, joined by ", ", exactly one "<hex> <percent>%"
\* entry per stop in ascending order of position, stops of equal position in
\* their array order, whatever the order of g.stops.
C14_CssEntriesSortedStable ==
  LinearCss =>
    /\ ret.value.kind = "linear-gradient"
    /\ ret.value.angle = gradientIn.angle
    /\ ret.value.unit = "deg"
    /\ ret.value.separator = ", "
    /\ Len(ret.value.entries) = NumIn
    /\ \A j \in 0..(NumIn - 1) :
         ret.value.entries[j + 1] = CssEntry(gradientIn.stops[StopOfRank(j)])

\* three stops serialized: the first of the array has the greatest position
\* and the other two share a position
C14_Witness ==
  /\ LinearCss
  /\ NumIn = 3
  /\ gradientIn.stops[1].position > gradientIn.stops[2].position
  /\ gradientIn.stops[2].position = gradientIn.stops[3].position
  /\ ret.value.entries[1].hex # ret.value.entries[2].hex
  /\ ret.value.angle \notin 0..359

\* the percentage of an entry in hundredths of a percent
Hundredths(percent) == percent.int * 100 + percent.frac[1] * 10 + percent.frac[2]

\* C15: every percentage toCss emits for a linear gradient has exactly two
\* decimals and is clamp(position * 100, 0, 100) rounded to them: 0.00 for a
\* position below 0, 100.00 for a position above 1, never outside [0, 100];
\* every stop gets its entry whatever its position.
C15_CssPercentClamped ==
  LinearCss =>
    /\ Len(ret.value.entries) = NumIn
    /\ \A j \in 0..(NumIn - 1) :
         LET position == gradientIn.stops[StopOfRank(j)].position
             percent == ret.value.entries[j + 1].percent
         IN  /\ Len(percent.frac) = 2
             /\ \A i \in 1..2 : percent.frac[i] \in 0..9
             /\ ~percent.neg
             /\ Hundredths(percent) \in 0..10000
             /\ position <= 0 => Hundredths(percent) = 0
             /\ position >= PosScale => Hundredths(percent) = 10000
             /\ position \in 0..PosScale =>
                  Abs(Hundredths(percent) * 10 - position) <= 5

\* a linear gradient serialized with a stop below 0, a stop above 1 and a
\* stop whose percentage is rounded up
C15_Witness ==
  /\ LinearCss
  /\ \E i, j, k \in 1..NumIn :
       /\ gradientIn.stops[i].position < 0
       /\ gradientIn.stops[j].position > PosScale
       /\ gradientIn.stops[k].position = 66667
  /\ Hundredths(ret.value.entries[2].percent) = 6667

\* C16: for a radial or conic gradient toCss returns the fallback literal
\* "background: gray;" and toSvgDefinition returns "<defs></defs>", whatever
\* the stops and the angle.
C16_NonLinearFallback ==
  gradientIn.type # "linear" =>
    /\ ret.op = "toCss" => ret.value = CssFallback
    /\ ret.op = "toSvgDefinition" => ret.value = SvgEmpty
    /\ ret.op = "toSvgFile" => ret.value.definition = SvgEmpty

\* toSvgDefinition has returned for a conic gradient with stops
C16_Witness ==
  /\ ret.op = "toSvgDefinition"
  /\ gradientIn.type = "conic"
  /\ NumIn = 2
  /\ ret.value.text = "<defs></defs>"

\* C18: after toCss, toSvgDefinition, toSvgFile, contrastAudit or the packing
\* of renderGradientGL the argument is what it was at the call: the same
\* stops in the same order with the same id, position and colour, the same
\* type and angle, also when the stops were passed unsorted.
C18_ArgumentNotMutated ==
  ret.op \in {"toCss", "toSvgDefinition", "toSvgFile", "contrastAudit",
              "renderGradientGL"} =>
    /\ gradient = gradientIn
    /\ Len(gradient.stops) = Len(gradientIn.stops)
    /\ \A i \in 1..Len(gradientIn.stops) : gradient.stops[i] = gradientIn.stops[i]
    /\ gradient.type = gradientIn.type
    /\ gradient.angle = gradientIn.angle

\* a linear gradient whose stops are in descending order has been through
\* renderGradientGL's packing, which wrote them in ascending order
C18_Witness ==
  /\ ret.op = "renderGradientGL"
  /\ Len(gradientIn.stops) = 3
  /\ gradientIn.stops[1].position > gradientIn.stops[2].position
  /\ gradientIn.stops[2].position > gradientIn.stops[3].position
  /\ sortedStops # gradientIn.stops

\* ------------------------------------------------------------------------
\* color.ts: hexToOKLab on a string, then oklabToHex on its result
\* ------------------------------------------------------------------------
MaxHexLen == 7

\* characters of the arbitrary strings: a digit, an upper-case digit, a
\* character that is no hex digit (the 6-digit inputs below bring the
\* lower-case digits)
HexAlphabet == {"0", "F", "g"}

\* channel values of the 6-digit inputs: the ends, both sides of the
\* threshold 0.04045 * 255, the middle
ByteSamples == {0, 1, 10, 11, 128, 171, 254, 255}

HexInputs ==
  {<<"#">> \o str : str \in SeqsOver(HexAlphabet, 0, MaxHexLen)}
    \cup {<<"#">> \o ByteToHex(r) \o ByteToHex(g) \o ByteToHex(b) :
            r \in ByteSamples, g \in ByteSamples, b \in ByteSamples}

InitColor ==
  /\ GpuInit
  /\ WebOff
  /\ hasGpu = TRUE
  /\ canvasSupportsGpu = [cv \in Canvases |-> TRUE]
  /\ PureOff
  /\ \E hex \in HexInputs : colorCall = [op |-> "string", hex |-> hex]

HexToOKLab ==
  /\ colorCall.op = "string"
  /\ LET res == hexToOKLab(colorCall.hex)
     IN  colorCall' = [op |-> "hexToOKLab", hex |-> colorCall.hex,
                       threw |-> res.threw, color |-> res.color]
  /\ UNCHANGED <<gradient, stage, sortedStops, uniformData, tIn, fragOut,
                 gradientIn, ret>>
  /\ UNCHANGED <<gpuVars, webVars>>

OklabToHex ==
  /\ colorCall.op = "hexToOKLab"
  /\ colorCall.threw = "none"
  /\ colorCall' = [op |-> "oklabToHex", hex |-> colorCall.hex,
                   threw |-> "none", color |-> colorCall.color,
                   back |-> oklabToHex(colorCall.color)]
  /\ UNCHANGED <<gradient, stage, sortedStops, uniformData, tIn, fragOut,
                 gradientIn, ret>>
  /\ UNCHANGED <<gpuVars, webVars>>

NextColor ==
  \/ HexToOKLab
  \/ OklabToHex

SpecColor == InitColor /\ [][NextColor]_vars

\* a 6-hex-digit sRGB string: "#" and six hex digits
SixHexDigits(hex) ==
  /\ Len(hex) = 7
  /\ hex[1] = "#"
  /\ \A i \in 2..7 : IsHexDigit(hex[i])

\* C17: hexToOKLab fails with InvalidFormat on every malformed string (wrong
\* number of hex digits, a character that is no hex digit) and returns a
\* colour only for a 6-hex-digit string.
C17_MalformedHexRejected ==
  colorCall.op \in {"hexToOKLab", "oklabToHex"} =>
    IF SixHexDigits(colorCall.hex)
    THEN colorCall.threw = "none"
    ELSE colorCall.threw = "InvalidFormat"

\* channel i (1 = red, 2 = green, 3 = blue) of a "#rrggbb" string
ChannelOf(hex, i) == 16 * HexDigitValue(hex[2 * i]) + HexDigitValue(hex[2 * i + 1])

\* C20: for every 6-hex-digit string h, oklabToHex(hexToOKLab(h)) is a
\* "#rrggbb" string each of whose three channels differs from h's by at most 1.
C20_HexRoundTrip ==
  (colorCall.op = "oklabToHex" /\ SixHexDigits(colorCall.hex)) =>
    /\ SixHexDigits(colorCall.back)
    /\ \A i \in 1..3 :
         Abs(ChannelOf(colorCall.back, i) - ChannelOf(colorCall.hex, i)) <= 1

\* a chromatic colour with three different channels has made the round trip
C20_Witness ==
  /\ colorCall.op = "oklabToHex"
  /\ SixHexDigits(colorCall.hex)
  /\ ChannelOf(colorCall.hex, 1) = 171
  /\ ChannelOf(colorCall.hex, 2) = 10
  /\ ChannelOf(colorCall.hex, 3) = 254
  /\ colorCall.color.a # 0

\* ------------------------------------------------------------------------
\* color.ts: interpolateOklch. Hues are whole degrees and t is a multiple of
\* 1 / LerpScale, so hue1 + deltaHue * t is exact in units of 1 / LerpScale
\* degree.
\* ------------------------------------------------------------------------
LerpScale == 4

\* the % operator of JavaScript: the result has the sign of the dividend
JsRem(x, m) == IF x >= 0 THEN x % m ELSE 0 - ((0 - x) % m)

\* lines 702-724. h is in units of 1 / LerpScale degree, l and c in 1/FP;
\* deltaHue and the clamped t are given along with the result.
interpolateOklch(color1, color2, t) ==
  LET tc == clamp(t, 0, LerpScale)
      hue1 == color1.h
      hue2 == color2.h
      diff == hue2 - hue1
      deltaHue == IF Abs(diff) <= 180 THEN diff
                  ELSE IF diff > 180 THEN diff - 360 ELSE diff + 360
      interpolatedHue == JsRem(hue1 * LerpScale + deltaHue * tc, 360 * LerpScale)
  IN  [l |-> color1.l + ((color2.l - color1.l) * tc) \div LerpScale,
       c |-> color1.c + ((color2.c - color1.c) * tc) \div LerpScale,
       h |-> IF interpolatedHue < 0 THEN interpolatedHue + 360 * LerpScale
             ELSE interpolatedHue,
       deltaHue |-> deltaHue, t |-> tc]

\* hues in [0, 360): each pair of differences 180 apart, and near the ends
HueSamples == {0, 20, 90, 180, 200, 270, 359}

\* t below 0, at the ends, inside, above 1
LerpT == {0 - 2, 0, 1, 2, 4, 6}

LerpColor(h) == [l |-> 500 + h, c |-> 100 + (h \div 2), h |-> h]

InitLerp ==
  /\ GpuInit
  /\ WebOff
  /\ hasGpu = TRUE
  /\ canvasSupportsGpu = [cv \in Canvases |-> TRUE]
  /\ PureOff
  /\ \E h1 \in HueSamples, h2 \in HueSamples, t \in LerpT :
       colorCall = [op |-> "colors", color1 |-> LerpColor(h1),
                    color2 |-> LerpColor(h2), t |-> t]

InterpolateOklch ==
  /\ colorCall.op = "colors"
  /\ colorCall' = [op |-> "interpolateOklch", color1 |-> colorCall.color1,
                   color2 |-> colorCall.color2, t |-> colorCall.t,
                   result |-> interpolateOklch(colorCall.color1,
                                               colorCall.color2, colorCall.t)]
  /\ UNCHANGED <<gradient, stage, sortedStops, uniformData, tIn, fragOut,
                 gradientIn, ret>>
  /\ UNCHANGED <<gpuVars, webVars>>

NextLerp == InterpolateOklch

SpecLerp == InitLerp /\ [][NextLerp]_vars

\* C19: with both hues in [0, 360) the hue delta interpolateOklch applies is
\* congruent to h2 - h1 modulo 360 and lies in (-180, 180] (a difference of
\* exactly -180 is taken as +180), t is clamped to [0, 1] before use and the
\* returned hue lies in [0, 360).
C19_HueDeltaHalfOpen ==
  colorCall.op = "interpolateOklch" =>
    LET res == colorCall.result
        diff == colorCall.color2.h - colorCall.color1.h
    IN  /\ (res.deltaHue - diff) % 360 = 0
        /\ res.deltaHue > 0 - 180
        /\ res.deltaHue <= 180
        /\ res.t = clamp(colorCall.t, 0, LerpScale)
        /\ res.h >= 0
        /\ res.h < 360 * LerpScale
        /\ (res.h - (colorCall.color1.h * LerpScale + res.deltaHue * res.t))
             % (360 * LerpScale) = 0

\* ------------------------------------------------------------------------
\* web/persistence/dexie-gradient.ts: saveGradient and loadLastGradient on
\* the table db.gradients (primary key id). The calls are awaited one after
\* the other; each IndexedDB request succeeds or fails.
\* ------------------------------------------------------------------------
MaxPersistCalls == 4

\* the Gradient values handed to saveGradient
PersistGradients == {"g1", "g2", "g3"}

\* the rest of the program, idle
CoreOff ==
  /\ GpuInit
  /\ hasGpu = TRUE
  /\ canvasSupportsGpu = [cv \in Canvases |-> TRUE]
  /\ PureOff
  /\ colorCall = NoColorCall

\* mutant: Table.add, which fails when the key is already present and leaves
\* the stored record as it was
TableAdd(table, rec) ==
  IF rec.id \in DOMAIN table THEN table
  ELSE [k \in DOMAIN table \cup {rec.id} |-> IF k = rec.id THEN rec ELSE table[k]]

\* Table.put: insert the record, or replace the one with the same key
TablePut(table, rec) ==
  [k \in DOMAIN table \cup {rec.id} |-> IF k = rec.id THEN rec ELSE table[k]]

\* Table.get: the record, or undefined (the empty sequence)
TableGet(table, key) == IF key \in DOMAIN table THEN <<table[key]>> ELSE << >>

\* lines 25-32. outcome is what the put request does.
saveGradient(g, outcome) ==
  /\ persist.calls < MaxPersistCalls
  /\ persist' =
       [persist EXCEPT
          !.calls = @ + 1,
          !.table = IF outcome = "ok"
                    THEN TablePut(persist.table, [id |-> "last", data |-> g])
                    ELSE @,
          !.saved = g,
          !.written = IF outcome = "ok" THEN g ELSE @,
          !.allWritesOk = @ /\ outcome = "ok",
          !.saveResult = "resolved",
          !.loaded = "none",
          !.loadFailed = FALSE]
  /\ UNCHANGED <<gpuVars, pureVars, canvasUi, share, loader, throttled, store>>

\* lines 35-43. outcome is what the get request does.
loadLastGradient(outcome) ==
  /\ persist.calls < MaxPersistCalls
  /\ LET rec == TableGet(persist.table, "last")
     IN  persist' =
           [persist EXCEPT
              !.calls = @ + 1,
              !.loaded = IF outcome = "ok" /\ rec # << >>
                         THEN rec[1].data ELSE "null",
              !.loadFailed = outcome # "ok"]
  /\ UNCHANGED <<gpuVars, pureVars, canvasUi, share, loader, throttled, store>>

InitPersist == CoreOff /\ WebOff

NextPersist ==
  \/ \E g \in PersistGradients, outcome \in {"ok", "fail"} : saveGradient(g, outcome)
  \/ \E outcome \in {"ok", "fail"} : loadLastGradient(outcome)

SpecPersist == InitPersist /\ [][NextPersist]_vars

\* C21: the table holds at most one record. loadLastGradient returns null
\* before any save has been written and when its read fails, and otherwise
\* the gradient of the most recent save that was written, which is the
\* gradient of the most recent saveGradient call when no write failed: each
\* save replaces the record. saveGradient resolves also when its write fails.
C21_SingleRecordLastSave ==
  /\ Cardinality(DOMAIN persist.table) <= 1
  /\ persist.saveResult \in {"none", "resolved"}
  /\ persist.loaded # "none" =>
       /\ (persist.written = "none" \/ persist.loadFailed) => persist.loaded = "null"
       /\ (persist.written # "none" /\ ~persist.loadFailed) =>
            persist.loaded = persist.written
       /\ (persist.saved # "none" /\ persist.allWritesOk /\ ~persist.loadFailed) =>
            persist.loaded = persist.saved

\* a second, different gradient was saved over the first and then loaded
C21_Witness ==
  /\ persist.calls >= 3
  /\ persist.allWritesOk
  /\ persist.loaded = "g2"
  /\ persist.saved = "g2"

\* ------------------------------------------------------------------------
\* web GradientCanvas (ContrastBanner.tsx lines 73-164): the effect of lines
\* 84-114 and the renders it starts. A state change re-renders the component
\* and re-runs the effect when gradient or isGpuPath changed, after the
\* cleanup of the effect before it.
\* ------------------------------------------------------------------------
MaxEffects == 4

\* the gradient prop's values
UiGradient(g) == MkGradient(<<0, PosScale>>, 90 * g)

UiGradients == {1, 2}

\* the cleanup function returned at line 108, if the last effect returned one
CleanupLast(effects) ==
  [i \in 1..Len(effects) |-> [effects[i] EXCEPT !.active = FALSE]]

\* one run of the effect body (lines 85-113) after a render; transferOk says
\* whether transferControlToOffscreen succeeds when it is called. A change of
\* gpuError inside the body causes another render and run.
RECURSIVE RunEffect(_, _)
RunEffect(ui, transferOk) ==
  LET cleaned == [ui EXCEPT !.effects = CleanupLast(ui.effects)]
      isGpuPath == ~ui.gpuError
  IN  IF isGpuPath
      THEN IF ~ui.offscreen /\ ~transferOk
           THEN RunEffect([cleaned EXCEPT
                             !.gpuError = TRUE,
                             !.effects = Append(@, [g |-> ui.gradient, active |-> FALSE,
                                                    kind |-> "none", settled |-> "none"])],
                          transferOk)
           ELSE [cleaned EXCEPT
                   !.offscreen = TRUE,
                   !.started = @ + 1,
                   !.effects = Append(@, [g |-> ui.gradient, active |-> TRUE,
                                          kind |-> "gpu", settled |-> "pending"])]
      ELSE [cleaned EXCEPT
              !.background = toCss(UiGradient(ui.gradient)),
              !.effects = Append(@, [g |-> ui.gradient, active |-> FALSE,
                                     kind |-> "css", settled |-> "none"])]

\* mutant: the catch handler of lines 102-107 without the isActive test
OnRejectAlways(ui, e) ==
  RunEffect([ui EXCEPT !.gpuError = TRUE, !.effects[e].settled = "rejected"], TRUE)

\* lines 102-107: the catch handler of the render started by effect e
OnReject(ui, e) ==
  IF ui.effects[e].active
  THEN RunEffect([ui EXCEPT !.gpuError = TRUE, !.effects[e].settled = "rejected"],
                 TRUE)
  ELSE [ui EXCEPT !.effects[e].settled = "rejected", !.ignored = @ + 1]

\* the component is mounted with a gradient
Mount(g, transferOk) ==
  /\ ~canvasUi.mounted
  /\ canvasUi' = RunEffect([canvasUi EXCEPT !.mounted = TRUE, !.gradient = g],
                           transferOk)
  /\ UNCHANGED <<gpuVars, pureVars, persist, share, loader, throttled, store>>

\* the gradient prop changes
SetGradientProp(g) ==
  /\ canvasUi.mounted
  /\ g # canvasUi.gradient
  /\ Len(canvasUi.effects) < MaxEffects
  /\ canvasUi' = RunEffect([canvasUi EXCEPT !.gradient = g], TRUE)
  /\ UNCHANGED <<gpuVars, pureVars, persist, share, loader, throttled, store>>

\* the promise of renderGradientGL started by effect e settles
RenderSettles(e, res) ==
  /\ e \in 1..Len(canvasUi.effects)
  /\ canvasUi.effects[e].settled = "pending"
  /\ canvasUi' = IF res = "reject" THEN OnReject(canvasUi, e)
                 ELSE [canvasUi EXCEPT !.effects[e].settled = "resolved"]
  /\ UNCHANGED <<gpuVars, pureVars, persist, share, loader, throttled, store>>

InitCanvas == CoreOff /\ WebOff

NextCanvas ==
  \/ \E g \in UiGradients, transferOk \in BOOLEAN : Mount(g, transferOk)
  \/ \E g \in UiGradients : SetGradientProp(g)
  \/ \E e \in 1..MaxEffects, res \in {"resolve", "reject"} : RenderSettles(e, res)

SpecCanvas == InitCanvas /\ [][NextCanvas]_vars

\* C22: in every step of GradientCanvas, (1) when the render started by the
\* active effect rejects, gpuError is set and the fallback div's background
\* is toCss(gradient); (2) once gpuError is set it stays set and no step
\* starts a GPU render; (3) when the render of an effect that was cleaned up
\* rejects, gpuError, the background, the gradient and the renders started
\* are unchanged.
C22_GpuErrorFallback ==
  [][ /\ canvasUi.gpuError =>
           /\ canvasUi'.gpuError
           /\ canvasUi'.started = canvasUi.started
      /\ \A e \in 1..Len(canvasUi.effects) :
           (canvasUi.effects[e].settled = "pending"
              /\ canvasUi'.effects[e].settled = "rejected") =>
             IF canvasUi.effects[e].active
             THEN /\ canvasUi'.gpuError
                  /\ canvasUi'.background = toCss(UiGradient(canvasUi.gradient))
                  /\ canvasUi'.started = canvasUi.started
             ELSE /\ canvasUi'.gpuError = canvasUi.gpuError
                  /\ canvasUi'.background = canvasUi.background
                  /\ canvasUi'.started = canvasUi.started
                  /\ canvasUi'.gradient = canvasUi.gradient
    ]_vars

\* a rejection from a cleaned-up effect was ignored, the active effect's
\* render then rejected, and the gradient changed once more after that
C22_Witness ==
  /\ canvasUi.gpuError
  /\ canvasUi.ignored >= 1
  /\ \E e1, e2, e3 \in 1..Len(canvasUi.effects) :
       /\ e1 < e2
       /\ e2 < e3
       /\ canvasUi.effects[e1].kind = "gpu"
       /\ canvasUi.effects[e1].settled = "rejected"
       /\ canvasUi.effects[e2].kind = "css"
       /\ canvasUi.effects[e3].kind = "css"
  /\ canvasUi.background = toCss(UiGradient(canvasUi.gradient))

\* ------------------------------------------------------------------------
\* The share endpoint (web/api/share.ts) and GradientLoader
\* ------------------------------------------------------------------------
MaxPosts == 2

\* `for (let i = 0; i < 3; i++)` in createSlug
SLUG_ATTEMPTS == 3

\* what nanoid(6).replace(/[-_]/g, '') can yield: any string over the
\* remaining alphabet of length 0 to 6; "" when all six characters are
\* removed. Two values stand for them.
Slugs == {"", "Ab3xYz"}

\* request bodies: two valid gradients and one with no stops
SharePayloads == {UiGradient(1), UiGradient(2), MkGradient(<< >>, 0)}

\* JSON.stringify(data): a string, which is not the object
JsonStringify(data) == [json |-> data]

\* JSON.parse(raw)
JsonParse(raw) == raw.json

\* a response of the handler
Respond(status, body) == [status |-> status, body |-> body]

SetPost(r, rec) == [share EXCEPT !.posts[r] = rec]

\* handler, POST: the body is validated, then createSlug draws a slug and
\* awaits kv.get(slug)
HandlerPost(payload, slug) ==
  /\ Len(share.posts) < MaxPosts
  /\ share' = [share EXCEPT !.posts = Append(@,
       IF Len(payload.stops) = 0
       THEN [pc |-> "done", payload |-> payload, slug |-> "", i |-> 0,
             response |-> Respond(400, "Invalid gradient data")]
       ELSE [pc |-> "get", payload |-> payload, slug |-> slug, i |-> 0,
             response |-> Respond(0, "none")])]
  /\ UNCHANGED <<gpuVars, pureVars, persist, canvasUi, loader, throttled, store>>

\* createSlug when kv.get(slug) settles (lines 127-136): the slug is free and
\* kv.set is awaited, or the loop draws the next slug, or gives up; a
\* rejection of kv.get is caught by the handler (lines 155-164)
CreateSlugAfterGet(post, kv, ok, nextSlug) ==
  IF ~ok
  THEN [post EXCEPT !.pc = "done",
                    !.response = Respond(500, "Could not create share link")]
  ELSE IF post.slug \notin DOMAIN kv
       THEN [post EXCEPT !.pc = "set"]
       ELSE IF post.i + 1 < SLUG_ATTEMPTS
            THEN [post EXCEPT !.i = @ + 1, !.slug = nextSlug]
            ELSE [post EXCEPT !.pc = "done", !.i = @ + 1,
                    !.response = Respond(500,
                       "Failed to generate unique ID, please try again")]

KvGetSettles(r, ok, nextSlug) ==
  /\ r \in 1..Len(share.posts)
  /\ share.posts[r].pc = "get"
  /\ share' = SetPost(r, CreateSlugAfterGet(share.posts[r], share.kv, ok, nextSlug))
  /\ UNCHANGED <<gpuVars, pureVars, persist, canvasUi, loader, throttled, store>>

\* createSlug when kv.set(slug, JSON.stringify(data)) settles: the slug is
\* returned and the handler answers { slug }
KvSetSettles(r, ok) ==
  /\ r \in 1..Len(share.posts)
  /\ share.posts[r].pc = "set"
  /\ LET post == share.posts[r]
     IN  share' =
           IF ok
           THEN [kv |-> [k \in DOMAIN share.kv \cup {post.slug} |->
                           IF k = post.slug THEN JsonStringify(post.payload)
                           ELSE share.kv[k]],
                 posts |-> [share.posts EXCEPT ![r] =
                              [post EXCEPT !.pc = "done",
                                 !.response = Respond(200, [slug |-> post.slug])]]]
           ELSE SetPost(r, [post EXCEPT !.pc = "done",
                     !.response = Respond(500, "Could not create share link")])
  /\ UNCHANGED <<gpuVars, pureVars, persist, canvasUi, loader, throttled, store>>

\* handler, GET /api/share?slug=... (lines 168-196)
HandlerGet(kv, slug, ok) ==
  IF slug = "" THEN Respond(400, "Missing slug parameter")
  ELSE IF ~ok THEN Respond(500, [error |-> "Could not retrieve gradient"])
  ELSE IF slug \notin DOMAIN kv THEN Respond(404, "Gradient not found")
  ELSE Respond(200, JsonParse(kv[slug]))

\* GradientLoader mounts with the slug of the route ("" when there is none):
\* the effect of lines 17-67 up to the fetch
LoaderMount(slug) ==
  /\ ~loader.mounted
  /\ loader' =
       IF slug = ""
       THEN [loader EXCEPT !.mounted = TRUE, !.error = "Invalid share link.",
                           !.loadingState = "error"]
       ELSE [loader EXCEPT !.mounted = TRUE, !.slug = slug, !.fetching = TRUE]
  /\ UNCHANGED <<gpuVars, pureVars, persist, canvasUi, share, throttled, store>>

\* fetchGradient once the response is there (lines 35-61)
FetchGradientAfter(ld, response) ==
  IF response.status = 404
  THEN [ld EXCEPT !.fetching = FALSE, !.status = 404,
                  !.error = "Gradient not found.", !.loadingState = "error"]
  ELSE IF response.status # 200
  THEN [ld EXCEPT !.fetching = FALSE, !.status = response.status,
                  !.error = "Failed to fetch gradient", !.loadingState = "error"]
  ELSE IF "gradient" \notin DOMAIN response.body
  THEN [ld EXCEPT !.fetching = FALSE, !.status = 200,
                  !.error = "Invalid gradient data received from API",
                  !.loadingState = "error"]
  ELSE [ld EXCEPT !.fetching = FALSE, !.status = 200,
                  !.setGradient = <<response.body.gradient>>,
                  !.loadingState = "done", !.navigated = TRUE]

\* the fetch settles: the request reached the handler, which answered from
\* the store as it is now, or fetch itself rejected
FetchSettles(net, ok) ==
  /\ loader.fetching
  /\ loader' =
       IF net = "reject"
       THEN [loader EXCEPT !.fetching = FALSE, !.error = "Failed to fetch",
                           !.loadingState = "error"]
       ELSE FetchGradientAfter(loader, HandlerGet(share.kv, loader.slug, ok))
  /\ UNCHANGED <<gpuVars, pureVars, persist, canvasUi, share, throttled, store>>

InitShare == CoreOff /\ WebOff

NextShare ==
  \/ \E payload \in SharePayloads, slug \in Slugs : HandlerPost(payload, slug)
  \/ \E r \in 1..MaxPosts, ok \in BOOLEAN, nextSlug \in Slugs :
       KvGetSettles(r, ok, nextSlug)
  \/ \E r \in 1..MaxPosts, ok \in BOOLEAN : KvSetSettles(r, ok)
  \/ \E slug \in Slugs : LoaderMount(slug)
  \/ \E net \in {"response", "reject"}, ok \in BOOLEAN : FetchSettles(net, ok)

SpecShare == InitShare /\ [][NextShare]_vars

Answered(r) == share.posts[r].response.status = 200

\* C26: no two successful POSTs are answered with the same slug, and a GET
\* of a slug a POST was answered with returns the gradient of that POST
\* (what is stored under it is never replaced).
C26_UniqueSlugs ==
  \A r1 \in 1..Len(share.posts) :
    Answered(r1) =>
      /\ \A r2 \in 1..Len(share.posts) :
           (Answered(r2) /\ r1 # r2)
             => share.posts[r1].slug # share.posts[r2].slug
      /\ HandlerGet(share.kv, share.posts[r1].slug, TRUE)
           = Respond(200, share.posts[r1].payload)

\* C30: a GET by GradientLoader that the endpoint answers with a stored
\* gradient ends in state 'done' after setGradient with that gradient and
\* the navigation to the editor; state 'error' is reached only without a
\* slug, for an unknown slug or when the request fails.
C30_ShareLoadRoundTrip ==
  /\ loader.status = 200
       => /\ loader.loadingState = "done"
          /\ loader.navigated
          /\ loader.setGradient = <<JsonParse(share.kv[loader.slug])>>
  /\ loader.loadingState = "error"
       => loader.error \in {"Invalid share link.", "Gradient not found.",
                            "Failed to fetch gradient", "Failed to fetch"}

\* ------------------------------------------------------------------------
\* throttle(func, wait). Time is counted in ticks since the last invocation
\* of func (sinceInvoke) and since the timer was set (timerAge), both up to
\* WaitTicks, which stands for "wait milliseconds or more". The k-th call
\* passes k as its arguments.
\* ------------------------------------------------------------------------

\* mutant: func is invoked whether or not a timer is pending
ThrottledUnguarded(th, args) ==
  [th EXCEPT !.lastArgs = args,
             !.invoked = Append(@, [args |-> args, after |-> th.sinceInvoke]),
             !.sinceInvoke = 0, !.timeoutId = 1, !.timerAge = 0]

\* throttled(...args), lines 69-84
Throttled(th, args) ==
  IF th.timeoutId = 0
  THEN [th EXCEPT !.lastArgs = args,
                  !.invoked = Append(@, [args |-> args, after |-> th.sinceInvoke]),
                  !.sinceInvoke = 0, !.timeoutId = 1, !.timerAge = 0]
  ELSE [th EXCEPT !.lastArgs = args, !.trailingCallScheduled = TRUE]

\* mutant: the timer only clears itself
TimerCallbackNoTrailing(th) == [th EXCEPT !.timeoutId = 0]

\* the callback handed to setTimeout, lines 74-80
TimerCallback(th) ==
  IF th.trailingCallScheduled
  THEN [Throttled([th EXCEPT !.timeoutId = 0], th.lastArgs)
          EXCEPT !.trailingCallScheduled = FALSE]
  ELSE [th EXCEPT !.timeoutId = 0]

\* the throttled function is called
Call ==
  /\ throttled.callsMade < MaxThrottleCalls
  /\ throttled' = Throttled([throttled EXCEPT !.callsMade = @ + 1],
                            throttled.callsMade + 1)
  /\ UNCHANGED <<gpuVars, pureVars, persist, canvasUi, share, loader, store>>

\* the timer fires, wait milliseconds or more after it was set
TimerFires ==
  /\ throttled.timeoutId # 0
  /\ throttled.timerAge >= WaitTicks
  /\ throttled' = TimerCallback(throttled)
  /\ UNCHANGED <<gpuVars, pureVars, persist, canvasUi, share, loader, store>>

\* time passes
Tick ==
  /\ \/ throttled.sinceInvoke < WaitTicks
     \/ throttled.timeoutId # 0 /\ throttled.timerAge < WaitTicks
  /\ throttled' = [throttled EXCEPT
                     !.sinceInvoke = Min(@ + 1, WaitTicks),
                     !.timerAge = IF throttled.timeoutId # 0
                                  THEN Min(@ + 1, WaitTicks) ELSE @]
  /\ UNCHANGED <<gpuVars, pureVars, persist, canvasUi, share, loader, store>>

InitThrottle == CoreOff /\ WebOff

NextThrottle == Call \/ TimerFires \/ Tick

SpecThrottle == InitThrottle /\ [][NextThrottle]_vars

\* time passes and a timer that is due fires
SpecThrottleLive ==
  SpecThrottle /\ WF_vars(Tick) /\ WF_vars(TimerFires)

LastInvoked ==
  IF throttled.invoked = << >> THEN 0
  ELSE throttled.invoked[Len(throttled.invoked)].args

\* C28: func is never invoked with arguments older than those of an earlier
\* invocation, and once the calls have stopped and the timers have fired the
\* last invocation of func has the arguments of the most recent call.
C28_LastCallExecuted ==
  /\ [](\A i \in 1..Len(throttled.invoked), j \in 1..Len(throttled.invoked) :
          i < j => throttled.invoked[i].args <= throttled.invoked[j].args)
  /\ [](throttled.timeoutId = 0 => LastInvoked = throttled.callsMade)
  /\ <>[](throttled.timeoutId = 0 /\ LastInvoked = throttled.callsMade)

C28_Witness ==
  /\ throttled.callsMade = 3
  /\ throttled.timeoutId = 0
  /\ Len(throttled.invoked) = 2
  /\ throttled.invoked[2].args = 3

\* ------------------------------------------------------------------------
\* The gradient store (web/src/state/useGradientStore.ts)
\* ------------------------------------------------------------------------

\* stops.find(s => s.id === id): the index of the first match, 0 for none
FindStop(stops, id) ==
  IF \E k \in 1..Len(stops) : stops[k].id = id
  THEN CHOOSE k \in 1..Len(stops) :
         stops[k].id = id /\ \A j \in 1..(k - 1) : stops[j].id # id
  ELSE 0

\* set(produce(...)) of an action that changed the draft and called
\* throttledSave(state.gradient)
Produced(name, id, stops) ==
  LET g == [store.gradient EXCEPT !.stops = stops]
  IN  [store EXCEPT !.gradient = g, !.op = [name |-> name, id |-> id],
                    !.saveRequested = <<g>>]

\* set(produce(...)) of an action that left the draft alone
NotProduced(name, id) == [store EXCEPT !.op = [name |-> name, id |-> id]]

\* mutant: the position is stored without sorting the stops
updateStopPositionNoSort(id, pos) ==
  /\ store' =
       LET stops == store.gradient.stops
           k == FindStop(stops, id)
       IN  IF k # 0
           THEN Produced("updateStopPosition", id,
                  [stops EXCEPT ![k].position = Max(0, Min(PosScale, pos))])
           ELSE NotProduced("updateStopPosition", id)
  /\ UNCHANGED <<gpuVars, pureVars, persist, canvasUi, share, loader, throttled>>

\* lines 61-69
updateStopPosition(id, pos) ==
  /\ store' =
       LET stops == store.gradient.stops
           k == FindStop(stops, id)
       IN  IF k # 0
           THEN Produced("updateStopPosition", id,
                  SortByPosition([stops EXCEPT ![k].position = Max(0, Min(PosScale, pos))]))
           ELSE NotProduced("updateStopPosition", id)
  /\ UNCHANGED <<gpuVars, pureVars, persist, canvasUi, share, loader, throttled>>

\* lines 71-78
updateStopColor(id, color) ==
  /\ store' =
       LET stops == store.gradient.stops
           k == FindStop(stops, id)
       IN  IF k # 0
           THEN Produced("updateStopColor", id, [stops EXCEPT ![k].color = color])
           ELSE NotProduced("updateStopColor", id)
  /\ UNCHANGED <<gpuVars, pureVars, persist, canvasUi, share, loader, throttled>>

\* the loop of lines 87-97 from index i on (0-based): the largest gap and
\* the index it starts at
RECURSIVE LargestGap(_, _, _, _)
LargestGap(stops, i, maxGap, insertIndex) ==
  IF ~(i < Len(stops) - 1) THEN [maxGap |-> maxGap, insertIndex |-> insertIndex]
  ELSE LET gap == stops[i + 2].position - stops[i + 1].position
       IN  IF gap > maxGap
           THEN LargestGap(stops, i + 1, gap, i)
           ELSE LargestGap(stops, i + 1, maxGap, insertIndex)

\* lines 80-114; nanoid() yields an id not given out before
addStop ==
  /\ store.idsMade < 2 + MaxStoreAdds
  /\ store' =
       LET stops == store.gradient.stops
           lg == LargestGap(stops, 0, 0, 0 - 1)
           newPosition ==
             IF Len(stops) >= 2 /\ lg.insertIndex # 0 - 1
             THEN stops[lg.insertIndex + 1].position + lg.maxGap \div 2
             ELSE PosScale \div 2
           newStop == [id |-> store.idsMade + 1, position |-> newPosition,
                       color |-> [l |-> FP \div 2, a |-> 0, b |-> 0]]
       IN  [Produced("addStop", 0, SortByPosition(Append(stops, newStop)))
              EXCEPT !.idsMade = @ + 1]
  /\ UNCHANGED <<gpuVars, pureVars, persist, canvasUi, share, loader, throttled>>

\* lines 116-122
removeStop(id) ==
  /\ store' =
       LET stops == store.gradient.stops
       IN  IF Len(stops) > 2
           THEN Produced("removeStop", id, SelectSeq(stops, LAMBDA st : st.id # id))
           ELSE NotProduced("removeStop", id)
  /\ UNCHANGED <<gpuVars, pureVars, persist, canvasUi, share, loader, throttled>>

\* arguments of the store actions: positions below 0 and above 1 (addStop
\* supplies positions in between),
\* ids of stops there may be and 0, which is never a stop's id
StorePositions == {0 - 50000, 150000}

StoreIds == 0..(2 + MaxStoreAdds)

InitStore == CoreOff /\ WebOff

NextStore ==
  \/ \E id \in StoreIds, pos \in StorePositions : updateStopPosition(id, pos)
  \/ \E id \in StoreIds : updateStopColor(id, Palette[1])
  \/ addStop
  \/ \E id \in StoreIds : removeStop(id)

SpecStore == InitStore /\ [][NextStore]_vars

StoreStopIds(g) == {g.stops[k].id : k \in 1..Len(g.stops)}

\* C29: the store's gradient always has at least 2 stops, positions in
\* [0,1], stops in non-decreasing position order and pairwise distinct ids;
\* removeStop leaves the gradient as it is when it has 2 stops, and so does
\* every action given an id that no stop has.
C29_StoreKeepsGradientValid ==
  /\ [](LET stops == store.gradient.stops
        IN  /\ Len(stops) >= 2
            /\ \A k \in 1..Len(stops) :
                 0 <= stops[k].position /\ stops[k].position <= PosScale
            /\ \A k \in 1..(Len(stops) - 1) :
                 stops[k].position <= stops[k + 1].position
            /\ \A j \in 1..Len(stops), k \in 1..Len(stops) :
                 j # k => stops[j].id # stops[k].id)
  /\ [][ /\ (store'.op.name = "removeStop" /\ Len(store.gradient.stops) = 2)
              => store'.gradient = store.gradient
         /\ ( /\ store'.op.name \in {"updateStopPosition", "updateStopColor",
                                     "removeStop"}
              /\ store'.op.id \notin StoreStopIds(store.gradient) )
              => store'.gradient = store.gradient ]_vars

C29_Witness ==
  /\ Len(store.gradient.stops) = 3
  /\ store.op = [name |-> "updateStopPosition", id |-> 1]
  /\ store.gradient.stops[1].id = 3
  /\ store.gradient.stops[2].id = 1
  /\ store.gradient.stops[2].position = PosScale
  /\ store.gradient.stops[3].id = 2
  /\ store.saveRequested = <<store.gradient>>

====
